---- MODULE Spec2Model ----
(***************************************************************************)
(* A model of the reaktiv reactive engine: Signals, Computeds, Effects and *)
(* the Scheduler (batching and the effect flush loop).                     *)
(*                                                                         *)
(* The scheduler is translated from src/src/reaktiv/scheduler.py, the     *)
(* write path of a Signal and the subscription bookkeeping of a consumer   *)
(* from src/signal_library.py.  The Computed and Effect classes the        *)
(* scheduler drives are not part of the sources at hand; they are modelled *)
(* from sections 3 and 4 of the specification (dirty flag, equality-gated  *)
(* propagation, dynamic dependency discovery).                             *)
(*                                                                         *)
(* The engine is driven by the client programs of the tests; `graph` names *)
(* the one that is running:                                                *)
(*   "diamond"   base; left = base + 1; right = base * 2;                  *)
(*               combined = left + right; diamond_effect reads combined    *)
(*   "equality"  base; approx = base * 2 with equal = |a-b| < Tol;         *)
(*               tracking_effect reads approx                              *)
(*   "dynamic"   switch, base, other; dyn = switch ? base : other          *)
(*   "basic"     base, other; left = base + 1;                             *)
(*               my_effect reads base, left, other                         *)
(* The Signal other is built with a custom equality predicate.             *)
(*                                                                         *)
(* Further programs, each run under a specification of its own, exercise   *)
(* Effects that write Signals (SpecCycle), an Effect that raises           *)
(* (SpecErrors), dispose, reclamation and cleanups (SpecLife); they are    *)
(* described where they are defined.  SpecAsync is the Signal and Effect   *)
(* of src/signal_library.py themselves, with Effects executed as tasks of  *)
(* an event loop and a context variable as current-consumer pointer.       *)
(* SpecAwait runs its callbacks that await; SpecCircular and SpecFallback  *)
(* run Computeds that read each other or raise; SpecSched drives the       *)
(* scheduler through start_batch, end_batch and flush_now; SpecFrame runs  *)
(* two chains of consumers that share no Signal.  SpecQueue follows the    *)
(* pending list through writes, creations, disposes and a failing          *)
(* staleness check; SpecEnqueue calls enqueue_effect directly; SpecTrack   *)
(* runs an Effect whose reads depend on what it read before; SpecExit      *)
(* leaves batch scopes by an exception of their body.                      *)
(***************************************************************************)
EXTENDS Integers, Sequences, FiniteSets, TLC

\* ------------------------------------------------------------------ bounds
\* Signal values range over 0..MaxVal; batch scopes nest up to MaxDepth.
MaxVal == 2
MaxDepth == 2
\* The event loop holds up to MaxTasks tasks created by Effect.schedule.
MaxTasks == 2

\* --------------------------------------------------------- program constants
\* graph.MAX_BATCH_ITERATIONS: the bound on outer iterations of one flush.
MAX_BATCH_ITERATIONS == 100
\* The tolerance of the custom equality predicate close_enough, in the units
\* of the model's integer values (the test uses 0.1 on floats around 2.0).
Tol == 3

None == "none"
\* The cached value of a Computed that was never evaluated.
NoValue == -1

Signals == {"base", "other", "switch"}
Computeds ==
    {"left", "right", "combined", "approx", "dyn", "a", "b", "safe_compute", "strict",
     "computed_xy", "computed_z"}
Nodes == Signals \cup Computeds
Effects ==
    {"diamond_effect", "tracking_effect", "my_effect", "flip", "ping", "pong",
     "first_effect", "faulty", "last_effect",
     "effect_fn", "derived", "outer_effect", "inner_effect",
     "effect1", "effect2", "async_eff", "async_effect", "watcher",
     "bystander", "producer", "consumer", "effect_xy", "effect_z", "checker",
     "test_effect"}
Consumers == Computeds \cup Effects

\* The client programs, and the Nodes and Effects each one constructs.
Graphs == {"diamond", "equality", "dynamic", "basic"}
GraphNodes(g) ==
    CASE g = "diamond" -> {"base", "left", "right", "combined"}
      [] g = "equality" -> {"base", "approx"}
      [] g = "dynamic" -> {"switch", "base", "other", "dyn"}
      [] g = "basic" -> {"base", "other", "left"}
      [] g = "selfwrite" -> {"switch"}
      [] g = "pingpong" -> {"base", "switch"}
      [] g = "errors" -> {"base", "switch"}
      [] g = "lifecycle" -> {"base"}
      [] g = "through" -> {"base", "left"}
      [] g = "nested" -> {"base", "switch"}
      [] g = "async" -> {"base", "switch"}
      [] g = "backpressure" -> {"base"}
      [] g = "late" -> {"base"}
      [] g = "circular" -> {"switch", "base", "a", "b"}
      [] g = "fallback" -> {"base", "safe_compute", "strict"}
      [] g = "chain" -> {"base", "switch"}
      [] g = "separate" -> {"base", "switch", "computed_xy", "computed_z"}
      [] g = "queue" -> {"base", "strict"}
      [] g = "tracking" -> {"base", "switch", "other", "dyn"}
GraphEffects(g) ==
    CASE g = "diamond" -> {"diamond_effect"}
      [] g = "equality" -> {"tracking_effect"}
      [] g = "dynamic" -> {}
      [] g = "basic" -> {"my_effect"}
      [] g = "selfwrite" -> {"flip"}
      [] g = "pingpong" -> {"ping", "pong"}
      [] g = "errors" -> {"first_effect", "faulty", "last_effect"}
      [] g = "lifecycle" -> {"effect_fn"}
      [] g = "through" -> {"derived"}
      [] g = "nested" -> {"outer_effect", "inner_effect"}
      [] g = "async" -> {"effect1", "effect2"}
      [] g = "backpressure" -> {"async_eff"}
      [] g = "late" -> {"async_effect"}
      [] g = "circular" -> {}
      [] g = "fallback" -> {"watcher"}
      [] g = "chain" -> {"bystander", "producer", "consumer"}
      [] g = "separate" -> {"effect_xy", "effect_z"}
      [] g = "queue" -> {"bystander", "checker"}
      [] g = "tracking" -> {"test_effect"}
\* The initial value each Signal is constructed with.
Initial(s) == IF s = "switch" THEN 1 ELSE 0

\* The values a Signal can be set to.
Domain(s) == IF s = "switch" THEN 0..1 ELSE 0..MaxVal

VARIABLES
    graph,               \* the client program that is running
    value,               \* Node -> cached / current value
    dirty,               \* Computed -> dirty flag
    evaluating,          \* Computed -> reentrancy guard
    observers,           \* Node -> set of Consumers observing it
    deps,                \* Consumer -> set of Nodes read by its last evaluation
    newDeps,             \* Consumer -> Nodes collected by the running evaluation
    current,             \* the dependency tracker's current consumer
    flags,               \* Effect -> subset of {"NOTIFIED", "DISPOSED"}
    outdated,            \* Effect -> a Node it read has changed since its last run
    created,             \* the Effects constructed so far
    reclaimed,           \* the Effects that were reclaimed (no reference to them is left)
    cleanups,            \* Effect -> the cleanups registered by its last run, in order
    next_batched_effect, \* Effect -> its intrusive next pointer
    batched_effect_head, \* graph.batched_effect_head
    batch_depth,         \* graph.batch_depth
    nesting,             \* the `with batch():` scopes the client has open
    \* -- the Effects of signal_library.py, run as tasks of the event loop
    scheduled,           \* Effect -> _scheduled
    disposed,            \* Effect -> _disposed
    collecting,          \* Effect -> _new_dependencies is not None
    tasks,               \* task -> the Effect it executes, its position, its context
    \* -- history variables (observations of the last operation)
    lastOp,              \* the operation last performed, with its arguments
    runs,                \* Effect -> callback invocations during the last operation
    computes,            \* Computed -> compute invocations during the last operation
    obs,                 \* Effect -> the values read by its last callback run
                         \*   (of a suspendable Effect: the value it last kept)
    unseen,              \* Effect -> a Signal its suspended run had read was written since
    touched,             \* Effects downstream of a non-equal write in the outermost batch scope
    stale,               \* Computed -> written upstream (non-equal) since its last evaluation
    scope,               \* what the outermost batch scope has held so far
    flushes,             \* flush loops run since the outermost batch scope was entered
    log,                 \* the callback runs and cleanup calls of the last operation, in order
    raised,              \* the Effects whose callback raised during the last operation
    running,             \* the last flush loop was left before it ended
    flush_iterations,    \* outer iterations made by the flush loops of the last operation
    ret,                 \* the value returned by the last get()
    exc                  \* the exception that escaped the last operation

vars == <<graph, value, dirty, evaluating, observers, deps, newDeps, current, flags,
          outdated, created, reclaimed, cleanups, log,
          scheduled, disposed, collecting, tasks, next_batched_effect, batched_effect_head,
          batch_depth, nesting, lastOp, runs, computes, obs, touched, stale, scope,
          flushes, raised, running, unseen,
          flush_iterations, ret, exc>>

\* The program state as one record: the operators below are the methods of the
\* engine, each mapping the state before the call to the state after it.
State ==
    [value |-> value, dirty |-> dirty, evaluating |-> evaluating,
     observers |-> observers, deps |-> deps, newDeps |-> newDeps,
     current |-> current, flags |-> flags, outdated |-> outdated,
     created |-> created, reclaimed |-> reclaimed, cleanups |-> cleanups,
     log |-> <<>>, next |-> next_batched_effect,
     head |-> batched_effect_head, batch_depth |-> batch_depth,
     nesting |-> nesting,
     runs |-> [e \in Effects |-> 0], computes |-> [c \in Computeds |-> 0],
     obs |-> obs, touched |-> touched, stale |-> stale, scope |-> scope, flushes |-> flushes,
     raised |-> {}, running |-> FALSE, flush_iterations |-> 0,
     ret |-> NoValue, exc |-> None]

\* ------------------------------------------------------------- sequences
Abs(x) == IF x < 0 THEN -x ELSE x

\* The order in which a set of Nodes is walked (sources before the Computeds
\* that read them).
NodeOrder ==
    <<"base", "other", "switch", "left", "right", "approx", "dyn", "combined",
      "a", "b", "safe_compute", "strict", "computed_xy", "computed_z">>
InOrder(set) == SelectSeq(NodeOrder, LAMBDA n : n \in set)
\* The order in which the observers of a Node are notified.
ConsumerOrder ==
    <<"left", "right", "approx", "dyn", "combined", "a", "b",
      "safe_compute", "strict", "computed_xy", "computed_z", "diamond_effect", "tracking_effect", "my_effect", "flip", "ping", "pong",
      "first_effect", "faulty", "last_effect",
      "effect_fn", "derived", "outer_effect", "inner_effect",
      "effect1", "effect2", "async_eff", "async_effect", "watcher",
      "bystander", "producer", "consumer", "effect_xy", "effect_z", "checker",
      "test_effect">>
InNotifyOrder(set) == SelectSeq(ConsumerOrder, LAMBDA k : k \in set)

\* ------------------------------------------------------------- equality
\* Node.equal: the default predicate is ==; the Computed approx is built with
\* close_enough, and so is the Signal other, whose values are on half the
\* scale of those of approx.
Equal(n, a, b) ==
    CASE n = "approx" -> Abs(a - b) < Tol
      [] n = "other" -> Abs(a - b) * 2 < Tol
      [] OTHER -> a = b

\* ------------------------------------------------------- sequencing
\* Bind(x, F) is F(x) with x evaluated once: the state reached by one call is
\* handed to the code that follows it.
Bind(x, F(_)) == CHOOSE y \in {F(v) : v \in {x}} : TRUE

\* ------------------------------------------------------- dependency tracking
\* A tracked read records an edge from the current consumer to the Node; a read
\* outside any evaluation records nothing.
\* A read that does not register the Node with the running consumer.
Track_none(S, n) == S

Track(S, n) ==
    IF S.current = None THEN S
    ELSE [S EXCEPT !.newDeps[S.current] = @ \cup {n}]

\* The dependency set is replaced but the new Nodes are not subscribed to.
Resubscribe_nosub(S, k) ==
    [S EXCEPT !.observers = [n \in Nodes |->
                    IF n \in S.deps[k] \ S.newDeps[k] THEN @[n] \ {k} ELSE @[n]],
              !.deps[k] = S.newDeps[k], !.newDeps[k] = {}]

\* The dependency set is replaced but the old Nodes are not unsubscribed from.
Resubscribe_keep(S, k) ==
    [S EXCEPT !.observers = [n \in Nodes |->
                    IF n \in S.newDeps[k] THEN @[n] \cup {k} ELSE @[n]],
              !.deps[k] = S.newDeps[k], !.newDeps[k] = {}]

\* On completion of an evaluation of consumer k: Nodes only in the old set are
\* unsubscribed, Nodes only in the new set are subscribed, the set is replaced.
\* A replacement that adds the Nodes read to the dependency set and
\* unsubscribes from none.
Resubscribe_merge(S, k) ==
    [S EXCEPT !.observers = [n \in Nodes |->
                    IF n \in S.newDeps[k] THEN @[n] \cup {k} ELSE @[n]],
              !.deps[k] = @ \cup S.newDeps[k], !.newDeps[k] = {}]

Resubscribe(S, k) ==
    LET old == S.deps[k]
        new == S.newDeps[k]
    IN  [S EXCEPT
            !.observers = [n \in Nodes |->
                IF n \in old \ new THEN @[n] \ {k}
                ELSE IF n \in new \ old THEN @[n] \cup {k}
                ELSE @[n]],
            !.deps[k] = new,
            !.newDeps[k] = {}]

\* ------------------------------------------------------------- scheduler
\* enqueue_effect that makes the Effect the head without linking the list
\* behind it.
enqueue_effect_unlinked(S, e) == [S EXCEPT !.head = e]

enqueue_effect(S, e) ==
    [S EXCEPT !.next[e] = IF S.head # None THEN S.head ELSE @,
              !.head = e]

\* start_batch that leaves the depth as it is.
start_batch_none(S) == S

start_batch(S) == [S EXCEPT !.batch_depth = @ + 1]

RECURSIVE NotifyAll(_, _, _)
RECURSIVE Refresh(_, _)
RECURSIVE ReadAll(_, _, _)
RECURSIVE RefreshAll(_, _)
RECURSIVE FlushWalk(_, _)
RECURSIVE FlushLoop(_, _)
RECURSIVE SignalSet(_, _, _)
RECURSIVE _run_callback(_, _)
RECURSIVE EffectCreate(_, _)
RECURSIVE CleanupAll(_, _, _)

\* ----------------------------------------------------- change propagation
\* Effect._notify: the Effect is enqueued unless it is already NOTIFIED.
\* `changed` tells it that the Node it observes took a new value (a Signal
\* write, or a Computed re-evaluated to a non-equal value); dirtiness passed
\* on through a Computed only says that it may have.
\* Effect._notify that enqueues the Effect whatever its NOTIFIED flag.
EffectNotify_unflagged(S, e, changed) ==
    IF "DISPOSED" \in S.flags[e] THEN S
    ELSE enqueue_effect([S EXCEPT !.outdated[e] = @ \/ changed,
                                  !.flags[e] = @ \cup {"NOTIFIED"}], e)

EffectNotify(S, e, changed) ==
    IF "DISPOSED" \in S.flags[e] THEN S
    ELSE IF "NOTIFIED" \in S.flags[e]
    THEN [S EXCEPT !.outdated[e] = @ \/ changed]
    ELSE enqueue_effect([S EXCEPT !.outdated[e] = @ \/ changed,
                                  !.flags[e] = @ \cup {"NOTIFIED"}], e)

\* Computed._notify: the Computed is marked dirty and the dirtiness is passed
\* on to its own observers; nothing is recomputed.
ComputedNotify(S, c) ==
    NotifyAll([S EXCEPT !.dirty[c] = TRUE], InNotifyOrder(S.observers[c]), FALSE)

NotifyAll(S0, seq, changed) ==
    IF seq = <<>> THEN S0
    ELSE Bind(S0, LAMBDA S :
            NotifyAll(IF Head(seq) \in Effects
                      THEN EffectNotify(S, Head(seq), changed)
                      ELSE ComputedNotify(S, Head(seq)),
                      Tail(seq), changed))

NotifyObservers(S, n, changed) ==
    NotifyAll(S, InNotifyOrder(S.observers[n]), changed)

\* --------------------------------------------------------------- reads
\* Signal.get: a tracked read of the current value.
SignalGet(S, s) == [Track(S, s) EXCEPT !.ret = S.value[s]]

\* Computed.get: a tracked read; the value is refreshed first when dirty.
ComputedGet(S, c) == Refresh(Track(S, c), c)

Read(S0, n) ==
    Bind(S0, LAMBDA S :
        IF S.exc # None THEN S
        ELSE IF n \in Signals THEN SignalGet(S, n) ELSE ComputedGet(S, n))

\* Computed(fn, default=9): the Computeds built with a default, and the
\* default each was given.
HasDefault(c) == c = "safe_compute"
Default(c) == 9

\* The dividend of the quotient safe_compute and strict compute (100 in the
\* example): one of its quotients, 18 / 2, is equal to the default.
Dividend(c) == 18

\* The compute functions of the graphs; each leaves its result in ret.
Compute(S, c) ==
    CASE c = "left" ->
            Bind(Read(S, "base"), LAMBDA R :
                IF R.exc # None THEN R ELSE [R EXCEPT !.ret = R.ret + 1])
      [] c = "right" ->
            Bind(Read(S, "base"), LAMBDA R :
                IF R.exc # None THEN R ELSE [R EXCEPT !.ret = R.ret * 2])
      [] c = "approx" ->
            Bind(Read(S, "base"), LAMBDA R :
                IF R.exc # None THEN R ELSE [R EXCEPT !.ret = R.ret * 2])
      [] c = "combined" ->
            Bind(Read(S, "left"), LAMBDA R1 :
                Bind(Read(R1, "right"), LAMBDA R2 :
                    IF R2.exc # None THEN R2
                    ELSE [R2 EXCEPT !.ret = R1.ret + R2.ret]))
      [] c = "dyn" ->
            Bind(Read(S, "switch"), LAMBDA R :
                IF R.exc # None THEN R
                ELSE IF R.ret = 1 THEN Read(R, "base") ELSE Read(R, "other"))
      [] c = "a" ->
            Bind(Read(S, "base"), LAMBDA R1 :
                Bind(Read(R1, "switch"), LAMBDA R2 :
                    IF R2.exc # None THEN R2
                    ELSE IF R2.ret = 0 THEN [R2 EXCEPT !.ret = R1.ret]
                    ELSE Bind(Read(R2, "b"), LAMBDA R3 :
                            IF R3.exc # None THEN R3
                            ELSE [R3 EXCEPT !.ret = R1.ret + R3.ret])))
      [] c = "b" ->
            Bind(Read(S, "switch"), LAMBDA R :
                IF R.exc # None THEN R
                ELSE IF R.ret = 1 THEN Read(R, "a") ELSE [R EXCEPT !.ret = 0])
      [] c = "computed_xy" ->
            Bind(Read(S, "base"), LAMBDA R :
                IF R.exc # None THEN R ELSE [R EXCEPT !.ret = R.ret + 1])
      [] c = "computed_z" ->
            Bind(Read(S, "switch"), LAMBDA R :
                IF R.exc # None THEN R ELSE [R EXCEPT !.ret = R.ret * 2])
      [] c \in {"safe_compute", "strict"} ->
            Bind(Read(S, "base"), LAMBDA R :
                IF R.exc # None THEN R
                ELSE IF R.ret = 0 THEN [R EXCEPT !.exc = "ZeroDivisionError"]
                ELSE [R EXCEPT !.ret = Dividend(c) \div R.ret])

\* The end of an evaluation of Computed c that produced `new` in state S1:
\* the dependency set is replaced by the Nodes read, dirty is cleared and the
\* value is the result of this evaluation (the invariant of section 3: a
\* clean Node holds its last evaluation; section 8.9 compares the next value
\* with 2.04, the result of the evaluation that was found equal).  The new
\* value is compared with the previously cached one, and only when they are
\* not equal are the observers notified.  A Computed never evaluated before
\* has no previous value to be equal to.
Settle(S1, c, new) ==
    LET old == S1.value[c]
        S3 == [Resubscribe(S1, c) EXCEPT !.dirty[c] = FALSE, !.value[c] = new,
                                         !.ret = new]
    IN  IF old # NoValue /\ Equal(c, old, new) THEN S3
        ELSE Bind(NotifyObservers(S3, c, TRUE),
                  LAMBDA S4 : [S4 EXCEPT !.ret = new])

\* A failed evaluation that hands out the default without caching it.
Fail_uncached(S1, c, consumer) ==
    IF S1.exc # "CircularDependency" /\ HasDefault(c)
    THEN [S1 EXCEPT !.evaluating[c] = FALSE, !.current = consumer,
                    !.newDeps[c] = {}, !.exc = None, !.ret = Default(c)]
    ELSE [S1 EXCEPT !.evaluating[c] = FALSE, !.current = consumer,
                    !.newDeps[c] = {},
                    !.exc = IF @ = "CircularDependency" THEN @ ELSE "ComputeFailed"]

\* A failed evaluation that is cached like a successful one.
Fail_cached(S1, c, consumer) ==
    IF S1.exc # "CircularDependency" /\ HasDefault(c)
    THEN Settle([S1 EXCEPT !.evaluating[c] = FALSE, !.current = consumer,
                           !.exc = None],
                c, Default(c))
    ELSE [S1 EXCEPT !.evaluating[c] = FALSE, !.current = consumer,
                    !.newDeps[c] = {}, !.dirty[c] = S1.exc = "CircularDependency",
                    !.exc = IF @ = "CircularDependency" THEN @ ELSE "ComputeFailed"]

\* The end of an evaluation of Computed c in which the compute function
\* raised, reached in state S1; `consumer` was current before the evaluation.
\* With a default, the default is the result of the evaluation (section
\* 4.5).  Without one the failure reaches the reader as ComputeFailed; the
\* Computed stays dirty and keeps the dependencies it had.  CircularDependency
\* reaches the reader as it is.
Fail(S1, c, consumer) ==
    IF S1.exc # "CircularDependency" /\ HasDefault(c)
    THEN Settle([S1 EXCEPT !.evaluating[c] = FALSE, !.current = consumer,
                           !.exc = None],
                c, Default(c))
    ELSE [S1 EXCEPT !.evaluating[c] = FALSE, !.current = consumer,
                    !.newDeps[c] = {},
                    !.exc = IF @ = "CircularDependency" THEN @ ELSE "ComputeFailed"]

\* An evaluation whose error is swallowed: the reader is handed the cached
\* value.
Refresh_swallow(S0, c) ==
    Bind(S0, LAMBDA S :
        IF S.exc # None THEN S
        ELSE IF ~S.dirty[c] THEN [S EXCEPT !.ret = S.value[c]]
        ELSE IF S.evaluating[c] THEN [S EXCEPT !.exc = "CircularDependency"]
        ELSE Bind(Compute([S EXCEPT !.evaluating[c] = TRUE, !.current = c,
                                    !.newDeps[c] = {}, !.computes[c] = @ + 1,
                                    !.stale[c] = FALSE],
                          c),
                  LAMBDA S1 :
                    IF S1.exc # None
                    THEN [S1 EXCEPT !.evaluating[c] = FALSE,
                                    !.current = S.current, !.newDeps[c] = {},
                                    !.exc = None, !.ret = S.value[c]]
                    ELSE Settle([S1 EXCEPT !.evaluating[c] = FALSE,
                                           !.current = S.current],
                                c, S1.ret)))

\* The untracked part of Computed.get.  Not dirty: the cached value.  Dirty:
\* re-evaluate with this Computed as the current consumer.
Refresh(S0, c) ==
    Bind(S0, LAMBDA S :
        IF S.exc # None THEN S
        ELSE IF ~S.dirty[c] THEN [S EXCEPT !.ret = S.value[c]]
        ELSE IF S.evaluating[c] THEN [S EXCEPT !.exc = "CircularDependency"]
        ELSE Bind(Compute([S EXCEPT !.evaluating[c] = TRUE, !.current = c,
                                    !.newDeps[c] = {}, !.computes[c] = @ + 1,
                                    !.stale[c] = FALSE],
                          c),
                  LAMBDA S1 :
                    IF S1.exc # None THEN Fail(S1, c, S.current)
                    ELSE Settle([S1 EXCEPT !.evaluating[c] = FALSE,
                                           !.current = S.current],
                                c, S1.ret)))

\* --------------------------------------------------------------- effects
\* The Nodes each Effect callback reads, in order.
Reads(e) ==
    CASE e = "diamond_effect" -> <<"combined">>
      [] e = "tracking_effect" -> <<"approx">>
      [] e = "my_effect" -> <<"base", "left", "other">>
      [] e = "flip" -> <<"switch">>
      [] e = "ping" -> <<"base">>
      [] e = "pong" -> <<"switch">>
      [] e = "first_effect" -> <<"base">>
      [] e = "faulty" -> <<"base">>
      [] e = "last_effect" -> <<"base">>
      [] e = "effect_fn" -> <<"base">>
      [] e = "derived" -> <<"left">>
      [] e = "outer_effect" -> <<"base">>
      [] e = "inner_effect" -> <<"switch">>
      [] e = "watcher" -> <<"safe_compute">>
      [] e = "bystander" -> <<"base">>
      [] e = "producer" -> <<"base">>
      [] e = "consumer" -> <<"switch">>
      [] e = "effect_xy" -> <<"computed_xy">>
      [] e = "effect_z" -> <<"computed_z">>
      [] e = "checker" -> <<"strict">>
      [] e = "test_effect" -> <<"base">>

\* An Effect callback: it reads its Nodes and keeps what it saw.
ReadAll(S0, e, seq) ==
    IF seq = <<>> THEN S0
    ELSE Bind(Read(S0, Head(seq)), LAMBDA R :
            IF R.exc # None THEN R
            ELSE ReadAll([R EXCEPT !.obs[e] = Append(@, R.ret)], e, Tail(seq)))

\* ---- cleanups
\* A cleanup is <<v, i>>: the i-th cleanup registered by a run that read v.
\* The cleanups a callback registers (by returning one, or through its
\* on_cleanup argument) when it read v first.
Registered(e, v) ==
    CASE e = "effect_fn" -> << <<v, 1>>, <<v, 2>> >>
      [] e \in {"derived", "outer_effect", "inner_effect", "effect1", "effect2"} ->
            << <<v, 1>> >>
      [] OTHER -> <<>>

\* The cleanup that raises when called: the first one of effect_fn,
\* registered by a run that read 1.
CleanupRaises(e, c) == e = "effect_fn" /\ c = <<1, 1>>

\* The entries of the log.
RunEvent(e) == <<"run", e, 0, 0>>
CleanupEvent(e, c) == <<"cleanup", e, c[1], c[2]>>
ErrorEvent(e, c) == <<"cleanup error", e, c[1], c[2]>>
\* The calls of a list of cleanups of e made one after the other.
CallsOf(e, seq) == [i \in 1..Len(seq) |-> CleanupEvent(e, seq[i])]

\* One cleanup call; an exception it raises is caught and reported.
Cleanup(S, e, c) ==
    [S EXCEPT !.log = IF CleanupRaises(e, c)
                      THEN @ \o <<CleanupEvent(e, c), ErrorEvent(e, c)>>
                      ELSE Append(@, CleanupEvent(e, c))]

\* The cleanups are called in registration order.
CleanupAll(S0, e, seq) ==
    IF seq = <<>> THEN S0
    ELSE Bind(S0, LAMBDA S : CleanupAll(Cleanup(S, e, Head(seq)), e, Tail(seq)))

\* The registered cleanups of Effect e are called and the list is emptied.
_run_cleanups(S, e) ==
    [CleanupAll(S, e, S.cleanups[e]) EXCEPT !.cleanups[e] = <<>>]

\* What a callback does with the values it read.  flip writes the Signal it
\* reads; ping and pong each write the Signal the other reads; faulty raises
\* when it read 1 from base, and reads switch when it did not; outer_effect
\* constructs inner_effect, keeping no reference to it, the first time it
\* reads 1 from base; producer writes to switch whether base is not 0.
Body(S, e) ==
    CASE e = "flip" -> SignalSet(S, "switch", 1 - S.obs[e][1])
      [] e = "producer" -> SignalSet(S, "switch", IF S.obs[e][1] = 0 THEN 0 ELSE 1)
      [] e = "ping" -> SignalSet(S, "switch", IF S.obs[e][1] = 0 THEN 0 ELSE 1)
      [] e = "pong" -> SignalSet(S, "base", 1 - S.obs[e][1])
      [] e = "faulty" ->
            IF S.obs[e][1] = 1
            THEN [S EXCEPT !.exc = "ValueError", !.raised = @ \cup {e}]
            ELSE ReadAll(S, e, <<"switch">>)
      [] e = "test_effect" ->
            IF S.obs[e][1] > 0 THEN ReadAll(S, e, <<"switch">>) ELSE S
      [] e = "outer_effect" ->
            IF S.obs[e][1] = 1 /\ "inner_effect" \notin S.created
            THEN EffectCreate(S, "inner_effect")
            ELSE S
      [] OTHER -> S

Callback(S, e) ==
    Bind(ReadAll(S, e, Reads(e)), LAMBDA R :
        IF R.exc # None THEN R
        ELSE Bind(Body(R, e), LAMBDA R1 :
                IF R1.exc # None THEN R1
                ELSE [R1 EXCEPT !.cleanups[e] = @ \o Registered(e, R1.obs[e][1])]))

\* The callback is entered without the Effect becoming the current consumer.
Enter_shared(S, e) ==
    [S EXCEPT !.outdated[e] = FALSE, !.newDeps[e] = {},
              !.runs[e] = @ + 1, !.obs[e] = <<>>, !.batch_depth = @ + 1,
              !.log = Append(@, RunEvent(e))]

\* The state in which the callback of a run of Effect e is entered.
Enter(S, e) ==
    [S EXCEPT !.outdated[e] = FALSE, !.current = e, !.newDeps[e] = {},
              !.runs[e] = @ + 1, !.obs[e] = <<>>, !.batch_depth = @ + 1,
              !.log = Append(@, RunEvent(e))]

\* A run that, when the callback raised, forgets the Nodes it had read.
_run_callback_forgetful(S0, e) ==
    Bind(S0, LAMBDA S :
        Bind(Callback(Enter(_run_cleanups(S, e), e), e),
             LAMBDA S1 : Resubscribe([S1 EXCEPT !.current = S.current,
                                                !.batch_depth = S.batch_depth,
                                                !.newDeps[e] =
                                                    IF S1.exc # None THEN {} ELSE @],
                                     e)))

\* A run that does not call the cleanups of the run before it.
_run_callback_nocleanup(S0, e) ==
    Bind(S0, LAMBDA S :
        Bind(Callback(Enter(S, e), e),
             LAMBDA S1 : Resubscribe([S1 EXCEPT !.current = S.current,
                                                !.batch_depth = S.batch_depth],
                                     e)))

\* Effect._run_callback: the cleanups registered by the run before are called
\* and the list is emptied; the callback runs as current consumer; then the
\* dependency set is replaced by the Nodes read.  The run holds the batch
\* depth, so that an Effect notified by a write the callback makes is left on
\* the pending list for the flush loop (section 4.3: effects scheduled during
\* a flush are fresh work for its outer loop).
_run_callback(S0, e) ==
    Bind(S0, LAMBDA S :
        Bind(Callback(Enter(_run_cleanups(S, e), e), e),
             LAMBDA S1 : Resubscribe([S1 EXCEPT !.current = S.current,
                                                !.batch_depth = S.batch_depth],
                                     e)))

\* Effect._needs_run: the defensive re-check made by the flush.  The dirty
\* Computeds the Effect read are refreshed; the Effect needs to run when a
\* Node it read has changed since its last run.  The answer is left in ret.
RefreshAll(S0, seq) ==
    IF seq = <<>> THEN S0
    ELSE Bind(Refresh(S0, Head(seq)), LAMBDA R :
            IF R.exc # None THEN R ELSE RefreshAll(R, Tail(seq)))

_needs_run(S0, e) ==
    Bind(S0, LAMBDA S :
        Bind(RefreshAll([S EXCEPT !.current = None],
                        InOrder(S.deps[e] \cap Computeds)),
             LAMBDA R : [R EXCEPT !.current = S.current,
                                  !.ret = IF R.outdated[e] THEN 1 ELSE 0]))

\* ------------------------------------------------------------ flush loop
\* One step of the walk over the snapshot list: the body of the inner loop of
\* _flush_effects for the Effect `cur`.
FlushOne_unchecked(S, cur) ==
    LET S1 == [S EXCEPT !.next[cur] = None, !.flags[cur] = @ \ {"NOTIFIED"}]
    IN  IF "DISPOSED" \in S1.flags[cur] THEN S1
        ELSE Bind(_run_callback(S1, cur), LAMBDA S3 : [S3 EXCEPT !.exc = None])

\* The body of the inner loop without its DISPOSED test.
FlushOne_undisposed(S, cur) ==
    LET S1 == [S EXCEPT !.next[cur] = None, !.flags[cur] = @ \ {"NOTIFIED"}]
    IN  Bind(_needs_run(S1, cur), LAMBDA S2 :
            IF S2.exc # None \/ S2.ret = 0 THEN S2
            ELSE Bind(_run_callback(S2, cur), LAMBDA S3 :
                    [S3 EXCEPT !.exc = None]))

\* The body of the inner loop without its try / except.
FlushOne_uncaught(S, cur) ==
    LET S1 == [S EXCEPT !.next[cur] = None, !.flags[cur] = @ \ {"NOTIFIED"}]
    IN  IF "DISPOSED" \in S1.flags[cur] THEN S1
        ELSE Bind(_needs_run(S1, cur), LAMBDA S2 :
                IF S2.exc # None \/ S2.ret = 0 THEN S2
                ELSE _run_callback(S2, cur))

\* The body of the inner loop passing over a disposed Effect without
\* clearing its next pointer and its NOTIFIED flag.
FlushOne_passing(S, cur) ==
    IF "DISPOSED" \in S.flags[cur] THEN S
    ELSE LET S1 == [S EXCEPT !.next[cur] = None, !.flags[cur] = @ \ {"NOTIFIED"}]
         IN  Bind(_needs_run(S1, cur), LAMBDA S2 :
                IF S2.exc # None \/ S2.ret = 0 THEN S2
                ELSE Bind(_run_callback(S2, cur), LAMBDA S3 :
                        [S3 EXCEPT !.exc = None]))

FlushOne(S, cur) ==
    LET S1 == [S EXCEPT !.next[cur] = None, !.flags[cur] = @ \ {"NOTIFIED"}]
    IN  IF "DISPOSED" \in S1.flags[cur] THEN S1
        ELSE Bind(_needs_run(S1, cur), LAMBDA S2 :
                IF S2.exc # None \/ S2.ret = 0 THEN S2
                ELSE Bind(_run_callback(S2, cur), LAMBDA S3 :
                        [S3 EXCEPT !.exc = None]))

\* The inner loop of _flush_effects: the walk over the snapshot list.
FlushWalk(S0, cur) ==
    IF cur = None THEN S0
    ELSE Bind(S0, LAMBDA S :
            IF S.exc # None THEN S
            ELSE FlushWalk(FlushOne(S, cur), S.next[cur]))

\* One pass of the outer loop of _flush_effects: its test, its cycle guard and
\* the walk over the list it detached.  flush_iterations is the local counter
\* `iterations` of the flush.
FlushPass_unguarded(S0) ==
    Bind(S0, LAMBDA S :
        IF S.exc # None \/ S.head = None THEN S
        ELSE FlushWalk([S EXCEPT !.head = None, !.flush_iterations = @ + 1],
                       S.head))

\* A pass that walks the pending list without detaching it from the head.
FlushPass_shared(S0) ==
    Bind(S0, LAMBDA S :
        IF S.exc # None \/ S.head = None THEN S
        ELSE IF S.flush_iterations + 1 > MAX_BATCH_ITERATIONS
        THEN [S EXCEPT !.exc = "ReactiveCycle"]
        ELSE FlushWalk([S EXCEPT !.flush_iterations = @ + 1], S.head))

FlushPass(S0) ==
    Bind(S0, LAMBDA S :
        IF S.exc # None \/ S.head = None THEN S
        ELSE IF S.flush_iterations + 1 > MAX_BATCH_ITERATIONS
        THEN [S EXCEPT !.exc = "ReactiveCycle"]
        ELSE FlushWalk([S EXCEPT !.head = None, !.flush_iterations = @ + 1],
                       S.head))

\* The outer loop of _flush_effects: passes are made until the pending list
\* is empty or an exception leaves the loop.  `passes` bounds the passes that
\* are followed; running is left TRUE when the loop would go on after them.
FlushLoop(S0, passes) ==
    IF passes = 1
    THEN Bind(FlushPass(S0), LAMBDA S :
            [S EXCEPT !.running = S.exc = None /\ S.head # None])
    ELSE Bind(FlushLoop(S0, passes \div 2), LAMBDA S :
            IF ~S.running THEN S ELSE FlushLoop(S, passes - passes \div 2))

\* _flush_effects without its test of the batch depth.
_flush_effects_unguarded(S0) ==
    Bind(S0, LAMBDA S :
        FlushLoop([S EXCEPT !.flushes = @ + 1, !.flush_iterations = 0],
                  MAX_BATCH_ITERATIONS + 1))

\* _flush_effects that catches the error of its cycle guard.
_flush_effects_caught(S0) ==
    Bind(S0, LAMBDA S :
        IF S.batch_depth > 0 THEN S
        ELSE Bind(FlushLoop([S EXCEPT !.flushes = @ + 1, !.flush_iterations = 0],
                            MAX_BATCH_ITERATIONS + 1),
                  LAMBDA R : [R EXCEPT !.exc = IF @ = "ReactiveCycle" THEN None ELSE @]))

_flush_effects(S0) ==
    Bind(S0, LAMBDA S :
        IF S.batch_depth > 0 THEN S
        ELSE FlushLoop([S EXCEPT !.flushes = @ + 1, !.flush_iterations = 0],
                       MAX_BATCH_ITERATIONS + 1))

flush_now(S) == _flush_effects(S)

\* end_batch leaving the pending Effects where they are.
end_batch_noflush(S0) == [S0 EXCEPT !.batch_depth = @ - 1]

end_batch(S0) ==
    Bind(S0, LAMBDA S :
        IF S.batch_depth - 1 = 0
        THEN _flush_effects([S EXCEPT !.batch_depth = @ - 1])
        ELSE [S EXCEPT !.batch_depth = @ - 1])

\* batch() leaving the scope without flushing.
batch_exit_noflush(S0) == [S0 EXCEPT !.batch_depth = @ - 1]

\* The exit of the batch() context manager (its finally block).
batch_exit(S0) ==
    Bind(S0, LAMBDA S :
        IF S.batch_depth - 1 = 0
        THEN _flush_effects([S EXCEPT !.batch_depth = @ - 1])
        ELSE [S EXCEPT !.batch_depth = @ - 1])

\* The exit of a scope whose body raised, without the finally block: the
\* exception passes and the depth stays.
batch_exit_raising_bare(S0) == [S0 EXCEPT !.exc = "BodyError"]

\* The exit of the batch() context manager when its body raised: the finally
\* block runs as at any exit, and the exception of the body goes on to the
\* caller unless the flush raised one in its place.
batch_exit_raising(S0) ==
    Bind(batch_exit(S0), LAMBDA R :
        [R EXCEPT !.exc = IF @ # None THEN @ ELSE "BodyError"])

\* batch() with a flag in place of the depth counter.
batch_enter_flag(S) == [S EXCEPT !.batch_depth = 1]

\* The entry of the batch() context manager.
batch_enter(S) == [S EXCEPT !.batch_depth = @ + 1]

\* ---------------------------------------------------------------- Signal
\* The Nodes consumer k depends on, directly or through Computeds, and the
\* live Effects that depend on Node n.
RECURSIVE Upstream(_, _)
Upstream(S, k) ==
    S.deps[k] \cup UNION {Upstream(S, c) : c \in S.deps[k] \cap Computeds}
Downstream(S, n) ==
    {e \in S.created : "DISPOSED" \notin S.flags[e] /\ n \in Upstream(S, e)}

\* The notification of a Signal's observers, wrapped by start_batch and
\* end_batch: the flush runs when the write was made outside any batch.
SignalNotify(S, s) == end_batch(NotifyObservers(start_batch(S), s, TRUE))

\* The history of a write: the Effects and Computeds downstream of it.
Written(S, s) ==
    [S EXCEPT !.touched = @ \cup Downstream(S, s),
              !.stale = [c \in Computeds |-> @[c] \/ s \in Upstream(S, c)],
              !.scope = CASE @ = "empty" -> "one"
                          [] @ = "one" -> "many"
                          [] OTHER -> @]

\* Signal.set that re-evaluates the Computeds observing the Signal at once.
SignalSet_eager(S0, s, v) ==
    Bind(S0, LAMBDA S :
        IF Equal(s, S.value[s], v) THEN S
        ELSE Bind(SignalNotify([Written(S, s) EXCEPT !.value[s] = v], s),
                  LAMBDA R : RefreshAll(R, InOrder(R.observers[s] \cap Computeds))))

\* Signal.set without its equality check.
SignalSet_unchecked(S0, s, v) ==
    SignalNotify([Written(S0, s) EXCEPT !.value[s] = v], s)

\* Signal.set that notifies the observers of every Node.
SignalSet_broadcast(S0, s, v) ==
    Bind(S0, LAMBDA S :
        IF Equal(s, S.value[s], v) THEN S
        ELSE end_batch(NotifyAll(start_batch([Written(S, s) EXCEPT !.value[s] = v]),
                                 InNotifyOrder(UNION {S.observers[n] : n \in Nodes}),
                                 TRUE)))

\* Signal.set: a no-op when the new value is equal to the current one;
\* otherwise the value is stored and the observers are notified.
SignalSet(S0, s, v) ==
    Bind(S0, LAMBDA S :
        IF Equal(s, S.value[s], v) THEN S
        ELSE SignalNotify([Written(S, s) EXCEPT !.value[s] = v], s))

\* The functions update() is called with.
UpdateFn(f, s, x) ==
    IF f = "same" THEN x ELSE (x + 1) % (IF s = "switch" THEN 2 ELSE MaxVal + 1)

\* Signal.update(f) is set(f(value)).
SignalUpdate(S, s, f) == SignalSet(S, s, UpdateFn(f, s, S.value[s]))

\* Effect(callback): the Effect runs once, synchronously, at creation; the
\* Effects its first run notified are flushed unless a batch is open.
EffectCreate(S, e) ==
    Bind(_run_callback([S EXCEPT !.created = @ \cup {e}], e), LAMBDA R :
        IF R.exc # None THEN R ELSE _flush_effects(R))

\* ------------------------------------------------------------- teardown
\* Effect e is removed from the observers of every Node it depends on.
\* The unsubscription of a teardown that empties the dependency set of the
\* Effect and leaves the Effect in the observer sets.
Unsubscribe_observed(S, e) == [S EXCEPT !.deps[e] = {}]

Unsubscribe(S, e) ==
    [S EXCEPT !.observers = [n \in Nodes |->
                    IF n \in S.deps[e] THEN @[n] \ {e} ELSE @[n]],
              !.deps[e] = {}]

\* A teardown that neither checks DISPOSED nor empties the cleanup list.
Teardown_repeat(S, e) ==
    Unsubscribe(CleanupAll([S EXCEPT !.flags[e] = @ \cup {"DISPOSED"}],
                           e, S.cleanups[e]), e)

\* A teardown that is abandoned at the first cleanup that raises.
Teardown_fragile(S, e) ==
    IF "DISPOSED" \in S.flags[e] THEN S
    ELSE IF \E i \in 1..Len(S.cleanups[e]) : CleanupRaises(e, S.cleanups[e][i])
    THEN LET i == CHOOSE k \in 1..Len(S.cleanups[e]) :
                    /\ CleanupRaises(e, S.cleanups[e][k])
                    /\ \A m \in 1..(k - 1) : ~CleanupRaises(e, S.cleanups[e][m])
         IN  [CleanupAll([S EXCEPT !.flags[e] = @ \cup {"DISPOSED"}],
                         e, SubSeq(S.cleanups[e], 1, i))
                EXCEPT !.cleanups[e] = SubSeq(@, i + 1, Len(@))]
    ELSE Unsubscribe(_run_cleanups([S EXCEPT !.flags[e] = @ \cup {"DISPOSED"}],
                                   e), e)

\* The teardown of Effect e, made by dispose() and by reclamation: nothing
\* when it was made before; otherwise the Effect is flagged DISPOSED, its
\* cleanups are called and it is unsubscribed from its dependencies.
Teardown(S, e) ==
    IF "DISPOSED" \in S.flags[e] THEN S
    ELSE Unsubscribe(_run_cleanups([S EXCEPT !.flags[e] = @ \cup {"DISPOSED"}],
                                   e), e)

\* effect.dispose().
EffectDispose(S, e) == Teardown(S, e)

\* The reclamation of an Effect to which no reference is left.
EffectReclaim(S, e) == [Teardown(S, e) EXCEPT !.reclaimed = @ \cup {e}]

\* =================================================================== actions
\* The state after the construction of the Signals and Computeds of a program.
Start ==
    /\ value = [n \in Nodes |-> IF n \in Signals THEN Initial(n) ELSE NoValue]
    /\ dirty = [c \in Computeds |-> TRUE]
    /\ evaluating = [c \in Computeds |-> FALSE]
    /\ observers = [n \in Nodes |-> {}]
    /\ deps = [k \in Consumers |-> {}]
    /\ newDeps = [k \in Consumers |-> {}]
    /\ current = None
    /\ flags = [e \in Effects |-> {}]
    /\ outdated = [e \in Effects |-> FALSE]
    /\ created = {}
    /\ scheduled = [e \in Effects |-> FALSE]
    /\ disposed = [e \in Effects |-> FALSE]
    /\ collecting = [e \in Effects |-> FALSE]
    /\ tasks = [t \in 0..MaxTasks |->
                    [effect |-> None, pc |-> IF t = 0 THEN "main" ELSE "free",
                     current_effect |-> None, token |-> None]]
    /\ reclaimed = {}
    /\ cleanups = [e \in Effects |-> <<>>]
    /\ log = <<>>
    /\ next_batched_effect = [e \in Effects |-> None]
    /\ batched_effect_head = None
    /\ batch_depth = 0
    /\ nesting = 0
    /\ lastOp = [op |-> "init", node |-> None, eq |-> FALSE, same |-> FALSE]
    /\ runs = [e \in Effects |-> 0]
    /\ computes = [c \in Computeds |-> 0]
    /\ obs = [e \in Effects |-> <<>>]
    /\ unseen = [e \in Effects |-> FALSE]
    /\ touched = {}
    /\ stale = [c \in Computeds |-> TRUE]
    /\ scope = "empty"
    /\ flushes = 0
    /\ raised = {}
    /\ running = FALSE
    /\ flush_iterations = 0
    /\ ret = NoValue
    /\ exc = None

Init == graph \in Graphs /\ Start

\* The state an operation starts from.  The history of a batch scope
\* (touched, flushes, scope) starts when the outermost scope is entered and
\* is kept until the next operation after its exit; an operation outside any
\* batch is a scope of its own.  scope is "empty", "one" (one non-equal write),
\* "many" (several, and nothing else) or "mixed" (reads or constructions too).
Begin ==
    IF nesting = 0
    THEN [State EXCEPT !.touched = {}, !.flushes = 0, !.scope = "empty"]
    ELSE State
Mixed(S) == [S EXCEPT !.scope = "mixed"]

\* The state after an operation that ended in state R.
Commit(R0, op) == \E R \in {R0} :
    /\ graph' = graph
    /\ value' = R.value
    /\ dirty' = R.dirty
    /\ evaluating' = R.evaluating
    /\ observers' = R.observers
    /\ deps' = R.deps
    /\ newDeps' = R.newDeps
    /\ current' = R.current
    /\ flags' = R.flags
    /\ outdated' = R.outdated
    /\ UNCHANGED <<scheduled, disposed, collecting, tasks, unseen>>
    /\ created' = R.created
    /\ reclaimed' = R.reclaimed
    /\ cleanups' = R.cleanups
    /\ log' = R.log
    /\ next_batched_effect' = R.next
    /\ batched_effect_head' = R.head
    /\ batch_depth' = R.batch_depth
    /\ nesting' = R.nesting
    /\ lastOp' = op
    /\ runs' = R.runs
    /\ computes' = R.computes
    /\ obs' = R.obs
    /\ touched' = R.touched
    /\ stale' = R.stale
    /\ scope' = R.scope
    /\ flushes' = R.flushes
    /\ raised' = R.raised
    /\ running' = R.running
    /\ flush_iterations' = R.flush_iterations
    /\ ret' = R.ret
    /\ exc' = R.exc

\* signal.set(v), called from outside any evaluation.
Set(s, v) ==
    Commit(SignalSet(Begin, s, v),
           [op |-> "set", node |-> s, eq |-> Equal(s, value[s], v),
            same |-> value[s] = v])

\* signal.update(f), called from outside any evaluation: it is the set of
\* f(value) and is recorded as the set it performs.
Update(s, f) ==
    Commit(SignalUpdate(Begin, s, f),
           [op |-> "set", node |-> s,
            eq |-> Equal(s, value[s], UpdateFn(f, s, value[s])),
            same |-> value[s] = UpdateFn(f, s, value[s])])

\* computed.get(), called from outside any evaluation.
Get(n) ==
    Commit(Read(Mixed(Begin), n), [op |-> "get", node |-> n, eq |-> FALSE, same |-> FALSE])

\* Entering a `with batch():` scope.
BatchEnter ==
    /\ nesting < MaxDepth
    /\ Commit(batch_enter([Begin EXCEPT !.nesting = @ + 1]), [op |-> "enter", node |-> None, eq |-> FALSE, same |-> FALSE])

\* Leaving a `with batch():` scope.
BatchExit ==
    /\ nesting > 0
    /\ Commit(batch_exit([Begin EXCEPT !.nesting = @ - 1]), [op |-> "exit", node |-> None, eq |-> FALSE, same |-> FALSE])

\* Effect(callback).
CreateEffect(e) ==
    /\ e \notin created
    /\ Commit(EffectCreate(Mixed(Begin), e),
              [op |-> "create", node |-> e, eq |-> FALSE, same |-> FALSE])

Next ==
    \/ \E s \in GraphNodes(graph) \cap Signals : \E v \in Domain(s) : Set(s, v)
    \/ \E s \in GraphNodes(graph) \cap Signals :
            \E f \in {"same", "inc"} : Update(s, f)
    \/ \E c \in GraphNodes(graph) \cap Computeds : Get(c)
    \/ BatchEnter
    \/ BatchExit
    \/ \E e \in GraphEffects(graph) : CreateEffect(e)

Spec == Init /\ [][Next]_vars

\* ------------------------------------------------- programs with write cycles
\* The programs whose Effects write Signals:
\*   "selfwrite"  switch; flip reads switch and writes its negation to it
\*   "pingpong"   base, switch; ping reads base and writes switch,
\*                pong reads switch and writes base, and no pair of values
\*                satisfies both
CycleGraphs == {"selfwrite", "pingpong"}

InitCycle == graph \in CycleGraphs /\ Start

NextCycle ==
    \/ \E s \in GraphNodes(graph) \cap Signals : \E v \in Domain(s) : Set(s, v)
    \/ BatchEnter
    \/ BatchExit
    \/ \E e \in GraphEffects(graph) : CreateEffect(e)

SpecCycle == InitCycle /\ [][NextCycle]_vars

\* A `with batch():` scope is left by an exception its body raised.
BatchRaise ==
    /\ nesting > 0
    /\ Commit(batch_exit_raising([Begin EXCEPT !.nesting = @ - 1]),
              [op |-> "raise", node |-> None, eq |-> FALSE, same |-> FALSE])

\* The programs with write cycles, with batch bodies that may raise.
NextExit ==
    \/ \E s \in GraphNodes(graph) \cap Signals : \E v \in Domain(s) : Set(s, v)
    \/ BatchEnter
    \/ BatchExit
    \/ BatchRaise
    \/ \E e \in GraphEffects(graph) : CreateEffect(e)

SpecExit == InitCycle /\ [][NextExit]_vars

\* ------------------------------------- a program with Computeds in a circle
\*   "circular"  switch, base; a = base + (b if switch else 0);
\*               b = a if switch else 0; no Effect
\* switch is constructed True; the client that constructs it False is this
\* one after switch.set(False).
InitCircular == graph = "circular" /\ Start
NextCircular ==
    \/ \E s \in GraphNodes(graph) \cap Signals : \E v \in Domain(s) : Set(s, v)
    \/ \E c \in GraphNodes(graph) \cap Computeds : Get(c)
    \/ BatchEnter
    \/ BatchExit

SpecCircular == InitCircular /\ [][NextCircular]_vars

\* ----------------------------------------- a program driving the scheduler
\*   "chain"   base, switch; bystander reads base; producer reads base and
\*             writes to switch whether base is not 0; consumer reads switch
\* The client opens and closes batch scopes with batch() and with the pair
\* start_batch() / end_batch(), and asks for a flush with flush_now().
StartBatch ==
    /\ nesting < MaxDepth
    /\ Commit(start_batch([Begin EXCEPT !.nesting = @ + 1]),
              [op |-> "start_batch", node |-> None, eq |-> FALSE, same |-> FALSE])

\* end_batch(), called to close a scope that is open.
EndBatch ==
    /\ nesting > 0
    /\ Commit(end_batch([Begin EXCEPT !.nesting = @ - 1]),
              [op |-> "end_batch", node |-> None, eq |-> FALSE, same |-> FALSE])

\* flush_now(), called inside or outside a batch scope.
FlushNow ==
    Commit(flush_now(Begin),
           [op |-> "flush_now", node |-> None, eq |-> FALSE, same |-> FALSE])

InitSched == graph = "chain" /\ Start
NextSched ==
    \/ \E s \in GraphNodes(graph) \cap Signals : \E v \in Domain(s) : Set(s, v)
    \/ BatchEnter
    \/ BatchExit
    \/ StartBatch
    \/ EndBatch
    \/ FlushNow
    \/ \E e \in GraphEffects(graph) : CreateEffect(e)

SpecSched == InitSched /\ [][NextSched]_vars

\* ------------------------------------ a program with independent consumers
\*   "separate"  base, switch; computed_xy = base + 1;
\*               computed_z = switch * 2; effect_xy reads computed_xy,
\*               effect_z reads computed_z
InitFrame == graph = "separate" /\ Start
NextFrame ==
    \/ \E s \in GraphNodes(graph) \cap Signals : \E v \in Domain(s) : Set(s, v)
    \/ \E c \in GraphNodes(graph) \cap Computeds : Get(c)
    \/ BatchEnter
    \/ BatchExit
    \/ \E e \in GraphEffects(graph) : CreateEffect(e)

SpecFrame == InitFrame /\ [][NextFrame]_vars

\* ------------------------------------- a program with conditional reads
\*   "tracking"  base, switch, other; dyn = switch ? base : other;
\*               test_effect reads base and, when base > 0, switch;
\*               the client reads Signals and dyn itself and opens no
\*               batch scope
InitTrack == graph = "tracking" /\ Start
NextTrack ==
    \/ \E s \in GraphNodes(graph) \cap Signals : \E v \in Domain(s) : Set(s, v)
    \/ \E n \in GraphNodes(graph) : Get(n)
    \/ \E e \in GraphEffects(graph) : CreateEffect(e)

SpecTrack == InitTrack /\ [][NextTrack]_vars

\* ------------------------------------------ a program with failing Computeds
\*   "fallback"  base; safe_compute = 18 / base, built with default 9;
\*               strict = 18 / base, built without a default;
\*               watcher reads safe_compute
InitFallback == graph = "fallback" /\ Start
NextFallback ==
    \/ \E s \in GraphNodes(graph) \cap Signals : \E v \in Domain(s) : Set(s, v)
    \/ \E c \in GraphNodes(graph) \cap Computeds : Get(c)
    \/ BatchEnter
    \/ BatchExit
    \/ \E e \in GraphEffects(graph) : CreateEffect(e)

SpecFallback == InitFallback /\ [][NextFallback]_vars

\* ------------------------------------------------ programs with teardowns
\*   "lifecycle"  base; effect_fn reads base and registers two cleanups,
\*                the first of which raises when it was registered by a run
\*                that read 1
\*   "through"    base; left = base + 1; derived reads left and registers
\*                one cleanup
\*   "nested"     base, switch; outer_effect reads base, registers a cleanup
\*                and constructs inner_effect (which reads switch and
\*                registers a cleanup) without keeping a reference to it
LifeGraphs == {"lifecycle", "through", "nested"}

\* The Effects the client constructs itself, and holds a reference to.
Owned(g) == GraphEffects(g) \ {"inner_effect"}

\* effect.dispose(), called by the holder of a reference.
Dispose(e) ==
    /\ e \in created \ reclaimed
    /\ Commit(EffectDispose(Mixed(Begin), e),
              [op |-> "dispose", node |-> e, eq |-> FALSE, same |-> FALSE])

\* The last reference to Effect e is dropped and the Effect is reclaimed.
\* The pending list refers to the Effects on it, so that an Effect is
\* reclaimed only when it is not pending.
Reclaim(e) ==
    /\ e \in created \ reclaimed
    /\ "NOTIFIED" \notin flags[e]
    /\ Commit(EffectReclaim(Mixed(Begin), e),
              [op |-> "reclaim", node |-> e, eq |-> FALSE, same |-> FALSE])

InitLife == graph \in LifeGraphs /\ Start

NextLife ==
    \/ \E s \in GraphNodes(graph) \cap Signals : \E v \in Domain(s) : Set(s, v)
    \/ \E c \in GraphNodes(graph) \cap Computeds : Get(c)
    \/ BatchEnter
    \/ BatchExit
    \/ \E e \in Owned(graph) : CreateEffect(e)
    \/ \E e \in Owned(graph) : Dispose(e)
    \/ \E e \in GraphEffects(graph) : Reclaim(e)

SpecLife == InitLife /\ [][NextLife]_vars

\* ------------------------------------------ a program that fills the queue
\*   "queue"  base; strict = 18 / base, built without default;
\*            bystander reads base, checker reads strict; the client
\*            disposes of Effects and drops its references to them
InitQueue == graph = "queue" /\ Start
NextQueue ==
    \/ \E s \in GraphNodes(graph) \cap Signals : \E v \in Domain(s) : Set(s, v)
    \/ BatchEnter
    \/ BatchExit
    \/ \E e \in GraphEffects(graph) : CreateEffect(e)
    \/ \E e \in GraphEffects(graph) : Dispose(e)
    \/ \E e \in GraphEffects(graph) : Reclaim(e)

SpecQueue == InitQueue /\ [][NextQueue]_vars

\* enqueue_effect(e), called on an Effect that was constructed, whatever its
\* flags.
Enqueue(e) ==
    /\ e \in created
    /\ Commit(enqueue_effect(Begin, e),
              [op |-> "enqueue", node |-> e, eq |-> FALSE, same |-> FALSE])

\* The queue program with enqueue_effect applied to every Effect in every
\* state of the list.
NextEnqueue ==
    \/ \E s \in GraphNodes(graph) \cap Signals : \E v \in Domain(s) : Set(s, v)
    \/ BatchEnter
    \/ BatchExit
    \/ \E e \in GraphEffects(graph) : CreateEffect(e)
    \/ \E e \in GraphEffects(graph) : Enqueue(e)

SpecEnqueue == InitQueue /\ [][NextEnqueue]_vars

\* ------------------------------------------- a program with a failing Effect
\*   "errors"   base, switch; first_effect, faulty and last_effect read base;
\*              faulty raises when base is 1 and reads switch when it is not
InitErrors == graph = "errors" /\ Start

NextErrors ==
    \/ \E s \in GraphNodes(graph) \cap Signals : \E v \in Domain(s) : Set(s, v)
    \/ BatchEnter
    \/ BatchExit
    \/ \E e \in GraphEffects(graph) : CreateEffect(e)

SpecErrors == InitErrors /\ [][NextErrors]_vars

\* ------------------------------------------------- suspendable Effects
\* The Signal and Effect of signal_library.py: an Effect is executed by a task
\* of the event loop and its callback is a coroutine.
\*   "async"   base, switch; the callback of effect1 reads base, awaits and
\*             reads base again; the callback of effect2 does so with switch;
\*             each registers a cleanup before it awaits
\*   "backpressure"  base; the callback of async_eff reads base, keeps the
\*             value it read, and awaits
\*   "late"    base; the callback of async_effect awaits, then reads base and
\*             keeps the value it read
\* Task 0 is the task of the client; tasks 1..MaxTasks are created by
\* Effect.schedule.  A step of a task runs it from one suspension point to the
\* next.
\* The Signal a callback reads before it awaits and the one it reads after,
\* None when it reads nothing there.
Before(e) ==
    CASE e = "effect1" -> "base"
      [] e = "effect2" -> "switch"
      [] e = "async_eff" -> "base"
      [] e = "async_effect" -> None
After(e) ==
    CASE e = "effect1" -> "base"
      [] e = "effect2" -> "switch"
      [] e = "async_eff" -> None
      [] e = "async_effect" -> "base"
\* The callbacks that keep the values they read (printed, or appended to a
\* list of results).
Keeps(e) == e \in {"async_eff", "async_effect"}

\* The variables of the synchronous engine, which signal_library.py has not.
EngineVars ==
    <<dirty, evaluating, current, flags, outdated, reclaimed,
      next_batched_effect, batched_effect_head, batch_depth, nesting, runs,
      computes, touched, stale, scope, flushes, raised, running,
      flush_iterations, ret>>

NoTask == [effect |-> None, pc |-> "free", current_effect |-> None, token |-> None]

\* _current_effect.get(None) in the context of task t.
ContextGet(T, t) == T[t].current_effect

\* One variable shared by the contexts of all tasks.
ContextSet_shared(T, t, e) == [u \in DOMAIN T |-> [T[u] EXCEPT !.current_effect = e]]

\* _current_effect.set(e), and reset(token), in the context of task t.
ContextSet(T, t, e) == [T EXCEPT ![t].current_effect = e]

\* Effect.add_dependency, on the sets nd of new dependencies.
add_dependency(nd, col, e, s) ==
    IF disposed[e] \/ ~col[e] THEN nd ELSE [nd EXCEPT ![e] = @ \cup {s}]

\* Signal.get with the pointer looked up in the context of the client's task.
AsyncGet_main(nd, col, T, t, s) ==
    IF ContextGet(T, 0) # None THEN add_dependency(nd, col, ContextGet(T, 0), s)
    ELSE nd

\* Signal.get called in task t: the read is registered with the Effect that
\* is current in the context of the task.
AsyncGet(nd, col, T, t, s) ==
    IF ContextGet(T, t) # None THEN add_dependency(nd, col, ContextGet(T, t), s)
    ELSE nd

\* The read a callback makes at one of its two places: of Signal s, or none.
CallbackGet(nd, col, T, t, s) ==
    IF s = None THEN nd ELSE AsyncGet(nd, col, T, t, s)

\* What the callback of e holds as the value it last read, after a read of
\* s at one of its places.
Kept(e, s, before) ==
    IF Keeps(e) /\ s # None THEN <<value[s]>> ELSE before

\* The Effects of which a run is suspended that read Signal s before it
\* awaited.
Suspended(s) ==
    {e \in GraphEffects(graph) : Before(e) = s /\
        \E t \in 1..MaxTasks : tasks[t].effect = e /\ tasks[t].pc = "suspended"}

\* Effect.schedule called in task `by`, on P = [scheduled, tasks]: the new
\* task starts with a copy of the context of the task that created it.
FreeTask(T) ==
    CHOOSE t \in 1..MaxTasks :
        T[t].pc = "free" /\ \A u \in 1..(t - 1) : T[u].pc # "free"

schedule(P, e, by) ==
    IF disposed[e] \/ P.scheduled[e] THEN P
    ELSE [scheduled |-> [P.scheduled EXCEPT ![e] = TRUE],
          tasks |-> [P.tasks EXCEPT ![FreeTask(P.tasks)] =
                        [effect |-> e, pc |-> "created",
                         current_effect |-> ContextGet(P.tasks, by),
                         token |-> None]]]

RECURSIVE ScheduleAll(_, _, _)
ScheduleAll(P, seq, by) ==
    IF seq = <<>> THEN P
    ELSE ScheduleAll(schedule(P, Head(seq), by), Tail(seq), by)

\* The tasks Signal.set(s) would create, and the room the event loop has.
Due(s) == {e \in observers[s] : ~disposed[e] /\ ~scheduled[e]}
Room == Cardinality({t \in 1..MaxTasks : tasks[t].pc = "free"})

\* The end of Effect._execute without its second _disposed test.
Finish_unchecked(e, nd) ==
    IF ~collecting[e]
    THEN newDeps' = nd /\ exc' = "TypeError"
         /\ UNCHANGED <<collecting, observers, deps>>
    ELSE /\ collecting' = [collecting EXCEPT ![e] = FALSE]
         /\ observers' = [s \in Nodes |->
                IF s \in deps[e] \ nd[e] THEN observers[s] \ {e}
                ELSE IF s \in nd[e] \ deps[e] THEN observers[s] \cup {e}
                ELSE observers[s]]
         /\ deps' = [deps EXCEPT ![e] = nd[e]]
         /\ newDeps' = [nd EXCEPT ![e] = {}]
         /\ exc' = None

\* The end of Effect._execute, after the callback: nothing for a disposed
\* Effect; otherwise the set of new dependencies is taken (the set difference
\* raises TypeError when another execution of the Effect has taken it
\* already), Signals only in the old set are unsubscribed from, Signals only
\* in the new set are subscribed to, and the set is replaced.
Finish(e, nd) ==
    IF disposed[e]
    THEN newDeps' = nd /\ exc' = None
         /\ UNCHANGED <<collecting, observers, deps>>
    ELSE IF ~collecting[e]
    THEN newDeps' = nd /\ exc' = "TypeError"
         /\ UNCHANGED <<collecting, observers, deps>>
    ELSE /\ collecting' = [collecting EXCEPT ![e] = FALSE]
         /\ observers' = [s \in Nodes |->
                IF s \in deps[e] \ nd[e] THEN observers[s] \ {e}
                ELSE IF s \in nd[e] \ deps[e] THEN observers[s] \cup {e}
                ELSE observers[s]]
         /\ deps' = [deps EXCEPT ![e] = nd[e]]
         /\ newDeps' = [nd EXCEPT ![e] = {}]
         /\ exc' = None

\* Effect(coroutine) followed by effect.schedule(), in the client's task.
AsyncSchedule(e) ==
    /\ e \notin created /\ Room > 0
    /\ created' = created \cup {e}
    /\ \E P \in {schedule([scheduled |-> scheduled, tasks |-> tasks], e, 0)} :
            scheduled' = P.scheduled /\ tasks' = P.tasks
    /\ lastOp' = [op |-> "schedule", node |-> e, eq |-> FALSE, same |-> FALSE]
    /\ log' = <<>> /\ exc' = None
    /\ UNCHANGED <<graph, value, observers, deps, newDeps, cleanups, disposed,
                   collecting, obs, unseen, EngineVars>>

\* signal.set(v), in the client's task.
AsyncSet(s, v) ==
    /\ Cardinality(Due(s)) <= Room
    /\ IF value[s] = v
       THEN UNCHANGED <<value, scheduled, tasks, unseen>>
       ELSE /\ value' = [value EXCEPT ![s] = v]
            /\ unseen' = [e \in Effects |-> unseen[e] \/ e \in Suspended(s)]
            /\ \E P \in {ScheduleAll([scheduled |-> scheduled, tasks |-> tasks],
                                      InNotifyOrder(observers[s]), 0)} :
                    scheduled' = P.scheduled /\ tasks' = P.tasks
    /\ lastOp' = [op |-> "set", node |-> s, eq |-> value[s] = v,
                  same |-> value[s] = v]
    /\ log' = <<>> /\ exc' = None
    /\ UNCHANGED <<graph, observers, deps, newDeps, cleanups, created, disposed,
                   collecting, obs, EngineVars>>

\* effect.dispose(), in the client's task; the cleanups the Effect has
\* registered are called (section 4.4).
AsyncDispose(e) ==
    /\ e \in created
    /\ IF disposed[e]
       THEN log' = <<>> /\ UNCHANGED <<disposed, observers, deps, cleanups>>
       ELSE /\ disposed' = [disposed EXCEPT ![e] = TRUE]
            /\ observers' = [s \in Nodes |->
                    IF s \in deps[e] THEN observers[s] \ {e} ELSE observers[s]]
            /\ deps' = [deps EXCEPT ![e] = {}]
            /\ cleanups' = [cleanups EXCEPT ![e] = <<>>]
            /\ log' = CallsOf(e, cleanups[e])
    /\ lastOp' = [op |-> "dispose", node |-> e, eq |-> FALSE, same |-> FALSE]
    /\ exc' = None
    /\ UNCHANGED <<graph, value, newDeps, created, scheduled, collecting, tasks,
                   obs, unseen, EngineVars>>

\* A created task runs Effect._execute up to the await of the callback: the
\* Effect becomes current in the context of the task, the cleanups of the run
\* before are called, and the callback reads its Signal and registers its
\* cleanup.  The task of a disposed Effect ends at once.
TaskStart(t) ==
    /\ tasks[t].pc = "created"
    /\ \E e \in {tasks[t].effect} :
        /\ scheduled' = [scheduled EXCEPT ![e] = FALSE]
        /\ IF disposed[e]
           THEN /\ tasks' = [tasks EXCEPT ![t].pc = "free", ![t].effect = None]
                /\ log' = <<>>
                /\ UNCHANGED <<newDeps, collecting, cleanups, obs, unseen>>
           ELSE \E T1 \in {ContextSet([tasks EXCEPT ![t].token = ContextGet(tasks, t)],
                                      t, e)} :
                /\ collecting' = [collecting EXCEPT ![e] = TRUE]
                /\ newDeps' = CallbackGet([newDeps EXCEPT ![e] = {}], collecting',
                                          T1, t, Before(e))
                /\ tasks' = [T1 EXCEPT ![t].pc = "suspended"]
                /\ cleanups' = [cleanups EXCEPT ![e] =
                        IF Before(e) = None THEN <<>>
                        ELSE Registered(e, value[Before(e)])]
                /\ obs' = [obs EXCEPT ![e] = Kept(e, Before(e), @)]
                /\ unseen' = [unseen EXCEPT ![e] = FALSE]
                /\ log' = CallsOf(e, cleanups[e]) \o <<RunEvent(e)>>
        /\ lastOp' = [op |-> "start", node |-> e, eq |-> FALSE, same |-> FALSE]
    /\ exc' = None
    /\ UNCHANGED <<graph, value, observers, deps, created, disposed, EngineVars>>

\* A suspended task runs to its end: the rest of the callback reads its
\* Signal, the context variable is reset, and Effect._execute finishes.
TaskResume(t) ==
    /\ tasks[t].pc = "suspended"
    /\ \E e \in {tasks[t].effect} :
        /\ Finish(e, CallbackGet(newDeps, collecting, tasks, t, After(e)))
        /\ obs' = [obs EXCEPT ![e] = Kept(e, After(e), @)]
        /\ tasks' = [ContextSet(tasks, t, tasks[t].token)
                        EXCEPT ![t].pc = "free", ![t].effect = None,
                               ![t].token = None]
        /\ lastOp' = [op |-> "resume", node |-> e, eq |-> FALSE, same |-> FALSE]
    /\ log' = <<>>
    /\ UNCHANGED <<graph, value, created, cleanups, scheduled, disposed, unseen,
                   EngineVars>>

InitAsync == graph = "async" /\ Start

NextAsync ==
    \/ \E e \in GraphEffects(graph) : AsyncSchedule(e)
    \/ \E s \in GraphNodes(graph) : \E v \in Domain(s) : AsyncSet(s, v)
    \/ \E e \in GraphEffects(graph) : AsyncDispose(e)
    \/ \E t \in 1..MaxTasks : TaskStart(t)
    \/ \E t \in 1..MaxTasks : TaskResume(t)

SpecAsync == InitAsync /\ [][NextAsync]_vars

\* The programs with one suspendable Effect that keeps what it read.
AwaitGraphs == {"backpressure", "late"}
InitAwait == graph \in AwaitGraphs /\ Start
SpecAwait == InitAwait /\ [][NextAsync]_vars

\* ------------------------------------------------------------ properties
\* The value the compute function of a Node yields under the current values
\* of the Signals.
TrueVal(n) ==
    CASE n \in Signals -> value[n]
      [] n = "left" -> value["base"] + 1
      [] n = "right" -> value["base"] * 2
      [] n = "combined" -> (value["base"] + 1) + (value["base"] * 2)
      [] n = "approx" -> value["base"] * 2
      [] n = "dyn" -> IF value["switch"] = 1 THEN value["base"] ELSE value["other"]
      [] n = "safe_compute" ->
            IF value["base"] = 0 THEN Default(n) ELSE Dividend(n) \div value["base"]
      [] n = "strict" ->
            IF value["base"] = 0 THEN NoValue ELSE Dividend(n) \div value["base"]

\* The last run of Effect e read the values the Nodes have now.
Consistent(e) ==
    obs[e] = [i \in 1..Len(Reads(e)) |-> TrueVal(Reads(e)[i])]

\* Every Signal upstream of Effect e is read by e itself.
Direct(e) == Upstream(State, e) \cap Signals \subseteq deps[e]

\* A Node read by Effect e has changed: a Signal holds another value than the
\* one e read, or a Computed would re-evaluate to a value that is not equal
\* to its cached one.
Changed(e) ==
    \E i \in 1..Len(obs[e]) :
        LET n == Reads(e)[i]
        IN  IF n \in Signals THEN obs[e][i] # value[n]
            ELSE ~Equal(n, value[n], TrueVal(n))

OuterExit == lastOp.op = "exit" /\ nesting = 0

\* C1 as stated: after the outermost batch scope exits, every Effect
\* downstream (directly or through Computeds) of a Signal that received a
\* non-equal write in the scope has run exactly once and has read the values
\* as of the exit.
C1_EveryDependentRunsOnce ==
    OuterExit => \A e \in touched : runs[e] = 1 /\ Consistent(e)

\* C1, amended: while a batch scope is open no Effect runs except the one
\* being constructed; the exit of the outermost scope runs an Effect at most
\* once, only an Effect downstream of a non-equal write, and the run reads
\* the values as of the exit, never an intermediate one; an Effect that reads
\* every Signal upstream of it directly is run exactly once when one of them
\* received a non-equal write.
C1_InBatch ==
    /\ nesting > 0 =>
            \A e \in Effects :
                runs[e] > 0 => lastOp.op = "create" /\ lastOp.node = e
    /\ OuterExit =>
            \A e \in Effects :
                /\ runs[e] <= 1
                /\ runs[e] = 1 => e \in touched /\ Consistent(e)
                /\ e \in touched /\ Direct(e) => runs[e] = 1

\* C1, amended (continued): the exit of the outermost scope runs exactly
\* once every Effect for which a Node it read has changed, and it leaves an
\* Effect alone when no Signal upstream of it was written in the scope.
C1_AtExit ==
    (lastOp'.op = "exit" /\ nesting' = 0) =>
        \A e \in created :
            /\ Changed(e) => runs'[e] = 1
            /\ e \notin touched => runs'[e] = 0 /\ obs'[e] = obs[e]

\* C1, amended, in full: inside a batch scope no dependent Effect runs; the
\* exit of the outermost scope runs each Effect downstream of a non-equal
\* write at most once, with the values as of the exit, and exactly once when a
\* Node it read has changed (C1_InBatch in every state, C1_AtExit at every
\* step).
C1_BatchedEffects == []C1_InBatch /\ [][C1_AtExit]_vars

\* A batch scope with several non-equal writes and nothing else has exited
\* and my_effect has run once, reading the final values.
C1_Witness ==
    /\ graph = "basic" /\ OuterExit /\ scope = "many" /\ flushes = 1
    /\ runs["my_effect"] = 1 /\ obs["my_effect"] = <<2, 3, 2>>
\* ------------------------------------------------------------------- C2
Write == lastOp.op = "set" /\ ~lastOp.eq
UnbatchedWrite == Write /\ nesting = 0

\* C2 as stated: when a non-equal Signal.set made outside any batch returns,
\* every live Effect downstream (directly or through a Computed) of the
\* Signal has run exactly once and has read the new value.
C2_EveryDependentRunsPerWrite ==
    UnbatchedWrite => \A e \in touched : runs[e] = 1 /\ Consistent(e)

\* C2, amended: when a non-equal write made outside any batch returns, no
\* Effect is left pending, each Effect has run at most once, only Effects
\* downstream of the Signal have run, a run has read the new values, and
\* every Effect that reads the Signal directly has run exactly once.
C2_OnReturn ==
    UnbatchedWrite =>
        /\ batched_effect_head = None /\ batch_depth = 0 /\ flushes = 1
        /\ \A e \in Effects :
                /\ runs[e] <= 1
                /\ runs[e] = 1 => e \in touched /\ Consistent(e)
                /\ lastOp.node \in deps[e] => runs[e] = 1

\* C2, amended (continued): an Effect that depends on the written Signal
\* only through Computeds has run exactly once when one of the Computeds it
\* reads re-evaluated to a value not equal to its cached one, and not at all
\* when each of them re-evaluated to an equal value.
C2_ThroughComputed ==
    (lastOp'.op = "set" /\ ~lastOp'.eq /\ nesting' = 0) =>
        \A e \in created :
            lastOp'.node \notin deps[e] =>
                (runs'[e] = 1 <=>
                    \E c \in deps[e] \cap Computeds :
                        ~Equal(c, value[c], TrueVal(c)'))

\* C2, amended, in full: by the time a non-equal write made outside any
\* batch returns, each Effect that reads the Signal directly has run exactly
\* once with the new value, and each Effect that depends on it only through
\* Computeds has run once or not at all, according to whether a Computed it
\* reads changed (C2_OnReturn in every state, C2_ThroughComputed at every
\* step).
C2_UnbatchedWrite == []C2_OnReturn /\ [][C2_ThroughComputed]_vars

\* Outside any batch, a second non-equal write to base has returned and
\* diamond_effect has run for it, reading the new value of combined.
C2_Witness ==
    /\ graph = "diamond" /\ UnbatchedWrite /\ lastOp.node = "base"
    /\ value["base"] = 2 /\ stale["combined"] = FALSE
    /\ runs["diamond_effect"] = 1 /\ obs["diamond_effect"] = <<7>>

\* ------------------------------------------------------------------- C3
\* C3: a set(v) or update(f) whose new value is equal to the current one
\* under the Signal's predicate changes nothing: the value, the dirty flags,
\* the caches, the edges and the pending list are as before, no compute
\* function and no Effect has run.
C3_Step ==
    (lastOp'.op = "set" /\ lastOp'.eq) =>
        /\ UNCHANGED <<value, dirty, evaluating, observers, deps, newDeps,
                       current, flags, outdated, created, next_batched_effect,
                       batched_effect_head, batch_depth, obs, stale>>
        /\ \A e \in Effects : runs'[e] = 0
        /\ \A c \in Computeds : computes'[c] = 0
        /\ touched' = (IF nesting = 0 THEN {} ELSE touched)

\* C3 at every step: an equal write is a no-op.
C3_EqualWriteIsNoOp == [][C3_Step]_vars

\* A write of another value that is equal under the custom predicate of the
\* Signal has returned while an Effect reads the Signal.
C3_Witness ==
    /\ lastOp.op = "set" /\ lastOp.eq /\ ~lastOp.same
    /\ lastOp.node = "other" /\ "my_effect" \in observers["other"]
    /\ value["other"] = 2 /\ runs["my_effect"] = 0
\* ------------------------------------------------------------------- C4
\* C4: with nested batch scopes no flush happens while a scope is open, so
\* none at the exit of an inner scope, where no Effect runs and the pending
\* Effects stay pending; exactly one flush happens, at the exit of the
\* outermost scope, and an Effect that reads the written Signals is then run
\* once and reads the last written values.
C4_NestedBatch ==
    /\ nesting > 0 => flushes = 0 /\ batch_depth = nesting
    /\ (lastOp.op = "exit" /\ nesting > 0) =>
            /\ \A e \in Effects : runs[e] = 0
            /\ \A e \in touched : "NOTIFIED" \in flags[e]
    /\ OuterExit =>
            /\ flushes = 1 /\ batch_depth = 0 /\ batched_effect_head = None
            /\ \A e \in touched :
                    Direct(e) => runs[e] = 1 /\ Consistent(e)

\* An inner scope has exited after several non-equal writes: my_effect is
\* pending and has not run.
C4_Witness ==
    /\ graph = "basic" /\ lastOp.op = "exit" /\ nesting = 1 /\ scope = "many"
    /\ batched_effect_head = "my_effect" /\ flushes = 0
    /\ value["base"] = 2 /\ obs["my_effect"] = <<0, 1, 0>>

\* ------------------------------------------------------------------- C5
\* C5: in the diamond (left and right read base, combined reads both, the
\* Effect reads combined) one non-equal write to base, made outside any batch
\* or alone in a batch scope, makes the compute function of combined (and of
\* left and of right) run exactly once and the Effect run exactly once, with
\* the new value of combined.
C5_Diamond ==
    (/\ graph = "diamond" /\ "diamond_effect" \in created
     /\ nesting = 0 /\ scope = "one" /\ lastOp.op \in {"set", "exit"}) =>
        /\ computes["combined"] = 1 /\ computes["left"] = 1
        /\ computes["right"] = 1
        /\ runs["diamond_effect"] = 1
        /\ obs["diamond_effect"] = <<3 * value["base"] + 1>>

\* A batch scope holding one non-equal write to base has exited.
C5_Witness ==
    /\ graph = "diamond" /\ OuterExit /\ scope = "one"
    /\ runs["diamond_effect"] = 1 /\ computes["combined"] = 1
    /\ obs["diamond_effect"] = <<4>>

\* ------------------------------------------------------------------- C6
\* C6: when writes (and nothing else) are flushed, an Effect that reads only
\* Computeds is rerun, once, exactly when a Computed it reads re-evaluates to
\* a value that is not equal, under the predicate of the Computed, to its
\* previously cached value; an Effect that was enqueued because its Computed
\* was dirtied is otherwise skipped by the flush: it is not run, it keeps
\* what it saw and it is no longer pending.
C6_Step ==
    (/\ lastOp'.op \in {"set", "exit"} /\ nesting' = 0
     /\ scope' \in {"one", "many"}) =>
        \A e \in created :
            (deps[e] # {} /\ deps[e] \subseteq Computeds) =>
                /\ runs'[e] <= 1
                /\ runs'[e] = 1 <=>
                        \E c \in deps[e] :
                            ~Equal(c, value[c], TrueVal(c)')
                /\ runs'[e] = 0 =>
                        obs'[e] = obs[e] /\ flags'[e] = {}
                /\ runs'[e] = 1 => obs'[e] = <<value'[Reads(e)[1]]>>

\* C6 at every step: an Effect reading a Computed reruns exactly when the
\* re-evaluated value is not equal to the previously cached one.
C6_EqualityGated == [][C6_Step]_vars

\* A non-equal write to base has re-evaluated approx to a value within the
\* tolerance of the cached one: tracking_effect was enqueued and skipped.
C6_Witness ==
    /\ graph = "equality" /\ UnbatchedWrite
    /\ touched = {"tracking_effect"} /\ runs["tracking_effect"] = 0
    /\ computes["approx"] = 1 /\ value["approx"] = 2
    /\ obs["tracking_effect"] = <<0>>
\* ------------------------------------------------------------------- C7
\* The Computeds a get() of Node n has to evaluate: n when a Signal upstream
\* of it was written (non-equal) since its last evaluation or it was never
\* evaluated, and likewise the Computeds it then reads.  st is stale before
\* the get(), dp the dependency sets after it.
RECURSIVE StalePath(_, _, _)
StalePath(st, dp, n) ==
    IF n \in Computeds /\ st[n]
    THEN {n} \cup UNION {StalePath(st, dp, d) : d \in dp[n]}
    ELSE {}

\* C7: a get() invokes the compute function of a Computed at most once: not
\* at all when no Signal upstream of it received a non-equal write since its
\* last evaluation, and exactly once, whatever the number of writes and
\* dirty-markings and the shape of the graph, for each Computed on the path
\* that was written upstream of; the get() returns the value the compute
\* function yields under the current Signal values.
C7_Step ==
    lastOp'.op = "get" =>
        /\ \A c \in Computeds :
                computes'[c] =
                    IF c \in StalePath(stale, deps', lastOp'.node) THEN 1 ELSE 0
        /\ \A n \in Computeds : lastOp'.node = n => ret' = TrueVal(n)'
        /\ \A e \in Effects : runs'[e] = 0

\* C7 at every step: a get() invokes each compute function on its path
\* exactly once when written upstream of, and not at all otherwise.
C7_Memoized == [][C7_Step]_vars

\* Inside a batch scope base was written and combined is read: combined,
\* left and right are evaluated once each, while the Effect still holds the
\* value it read before the scope.
C7_Witness ==
    /\ graph = "diamond" /\ nesting = 1 /\ lastOp.op = "get"
    /\ lastOp.node = "combined" /\ ret = 7
    /\ computes["combined"] = 1 /\ computes["left"] = 1
    /\ computes["right"] = 1 /\ obs["diamond_effect"] = <<1>>

\* ------------------------------------------------------------------- C8
\* C8: a compute function is invoked only by a read of its Computed while
\* the Computed is dirty or never evaluated: by a get() of it or of a
\* Computed downstream of it, or by an Effect downstream of it.  Creating the
\* Computed, entering or leaving a batch, and a write that dirties a Computed
\* no consumer reads invoke no compute function.
C8_Step ==
    \A c \in Computeds :
        /\ computes'[c] > 0 =>
                /\ \/ lastOp'.op = "get"
                         /\ \E n \in Computeds :
                                /\ lastOp'.node = n
                                /\ c \in {n} \cup Upstream(State, n)'
                   \/ \E e \in created' : c \in Upstream(State, e)'
                /\ \/ dirty[c]
                   \/ lastOp'.op = "set" /\ ~lastOp'.eq
                         /\ lastOp'.node \in Upstream(State, c)
        /\ (lastOp'.op # "get" /\ \A e \in created' : c \notin Upstream(State, e)') =>
                computes'[c] = 0 /\ value'[c] = value[c]

C9_Consistent ==
    /\ \A c \in Computeds :
            ~dirty[c] =>
                /\ value[c] # NoValue /\ value[c] = TrueVal(c)
                /\ \A d \in deps[c] \cap Computeds : ~dirty[d]
    /\ lastOp.op = "get" => ret = TrueVal(lastOp.node)
    /\ \A e \in Effects : runs[e] > 0 => Consistent(e)

\* left was read after a write to base inside a batch scope: left is clean
\* with the new value, combined holds the old value and is dirty.
C9_Witness ==
    /\ graph = "diamond" /\ ~dirty["left"] /\ value["left"] = 3
    /\ dirty["combined"] /\ value["combined"] = 1 /\ dirty["right"]

\* ------------------------------------------------------------------ C10
Branch == IF value["switch"] = 1 THEN "base" ELSE "other"

\* C10: dyn = switch ? base : other.  After an evaluation dyn depends on
\* exactly switch and the branch it read, and is observed by exactly those.
\* A write to the branch not taken neither dirties dyn nor changes the value
\* dyn.get() returns; a write to switch or to the branch taken dirties it and
\* the next get() returns the current value of the branch now selected.
C10_Edges ==
    (graph = "dynamic" /\ ~dirty["dyn"]) =>
        /\ deps["dyn"] = {"switch", Branch}
        /\ \A n \in Nodes : "dyn" \in observers[n] <=> n \in deps["dyn"]
        /\ value["dyn"] = value[Branch]

C10_Step ==
    (graph = "dynamic" /\ ~dirty["dyn"] /\ lastOp'.op = "set") =>
        /\ dirty'["dyn"] <=> (~lastOp'.eq /\ lastOp'.node \in {"switch", Branch})
        /\ value'["dyn"] = value["dyn"]
        /\ deps'["dyn"] = deps["dyn"]

\* C10 in full: the edges of dyn follow the branch it last read (C10_Edges in
\* every state, with every get() of dyn returning the value of the branch
\* selected, and C10_Step at every step).
C10_DynamicEdges ==
    /\ [](C10_Edges /\ (lastOp.node = "dyn" => ret = value[Branch]))
    /\ [][C10_Step]_vars

\* switch is false and dyn was re-evaluated; a non-equal write to base has
\* left dyn clean with the value of other.
C10_Witness ==
    /\ graph = "dynamic" /\ value["switch"] = 0 /\ ~dirty["dyn"]
    /\ Write /\ lastOp.node = "base" /\ value["base"] = 1
    /\ value["dyn"] = 2 /\ value["other"] = 2
\* ------------------------------------------------------------------- C11
\* The last operation ran a flush loop: a non-equal write, the exit of a batch
\* scope or the construction of an Effect, outside any batch.
Flushed ==
    /\ batch_depth = 0
    /\ \/ lastOp.op = "set" /\ ~lastOp.eq
       \/ lastOp.op \in {"exit", "create"}

Sound == {"first_effect", "last_effect"}

\* C12: an exception raised by an Effect callback during a flush is caught:
\* it does not reach the caller of the set or of the batch scope, and every
\* other pending Effect of that flush, enqueued before or after the failing
\* one, still runs, so that outside a batch each of them has read the
\* current value of base; a write outside a batch runs each of them once.
C12_EffectIsolation ==
    /\ lastOp.op \in {"set", "enter", "exit"} => exc = None
    /\ batch_depth = 0 =>
            \A e \in Sound \cap created : obs[e] = <<value["base"]>>
    /\ Flushed /\ lastOp.op = "set" /\ lastOp.node = "base" =>
            /\ \A e \in Sound \cap created : runs[e] = 1
            /\ "faulty" \in created /\ value["base"] = 1 => raised = {"faulty"}

\* Reached: a write of 1 to base outside any batch; faulty raised in the
\* flush, between the runs of last_effect and first_effect, and the set
\* returned normally.
C12_Witness ==
    /\ graph = "errors" /\ created = GraphEffects("errors")
    /\ lastOp.op = "set" /\ lastOp.node = "base" /\ value["base"] = 1
    /\ raised = {"faulty"} /\ exc = None
    /\ runs["first_effect"] = 1 /\ runs["last_effect"] = 1 /\ runs["faulty"] = 1
    /\ obs["first_effect"] = <<1>> /\ obs["last_effect"] = <<1>>

\* ------------------------------------------------------------------- C13
\* The last run of faulty raised: it read 1 from base and nothing after it.
LastRunRaised == "faulty" \in created /\ obs["faulty"] = <<1>>

\* C13: an Effect whose callback raised stays live.  It is not disposed, its
\* NOTIFIED flag is cleared once the flush is over, and it is subscribed to
\* exactly the Nodes it read before raising (base, not switch).
C13_Live ==
    LastRunRaised /\ batch_depth = 0 =>
        /\ flags["faulty"] = {}
        /\ deps["faulty"] = {"base"}
        /\ \A n \in Nodes : "faulty" \in observers[n] <=> n = "base"

\* C13 (continued): the next non-equal write to base enqueues it (inside a
\* batch it is NOTIFIED and on the pending list) and runs it again (outside
\* a batch it has run once, reading the value written, when the set returns).
C13_Step ==
    LastRunRaised /\ lastOp'.op = "set" /\ lastOp'.node = "base" /\ ~lastOp'.eq =>
        IF nesting = 0
        THEN runs'["faulty"] = 1 /\ Head(obs'["faulty"]) = value'["base"]
        ELSE /\ "NOTIFIED" \in flags'["faulty"]
             /\ runs'["faulty"] = 0
             /\ \/ batched_effect_head' = "faulty"
                \/ \E e \in Effects : next_batched_effect'[e] = "faulty"

\* C13: an Effect whose callback raised stays live: it keeps the state of
\* C13_Live in every state, and every step is a C13_Step, so that the next
\* non-equal write enqueues it and runs it again.
C13_FailedEffectStaysLive == []C13_Live /\ [][C13_Step]_vars

\* Reached: the last run of faulty raised, and a later write of 2 to base,
\* made inside a batch, has put it on the pending list again.
C13_Witness ==
    /\ graph = "errors" /\ LastRunRaised /\ nesting = 1
    /\ lastOp.op = "set" /\ lastOp.node = "base" /\ value["base"] = 2
    /\ "NOTIFIED" \in flags["faulty"] /\ deps["faulty"] = {"base"}
    /\ batched_effect_head = "last_effect"
    /\ next_batched_effect["last_effect"] = "faulty"


\* ------------------------------------------------------------------- C14
\* C14: once an Effect is disposed or reclaimed its callback is never invoked
\* again, by no write, flush, batch exit or read, directly or through a
\* Computed, and also when it was on the pending list when it was disposed.
C14_Step == \A e \in Effects : "DISPOSED" \in flags[e] => runs'[e] = 0

\* C14 at every step: the callback of a disposed or reclaimed Effect is not
\* invoked.
C14_NeverRunsAgain == [][C14_Step]_vars
\* Reached: effect_fn was put on the pending list by a write made in a batch
\* scope and disposed before the scope was left; the flush of the exit did
\* not run it, and it still holds the value it read before the write.
C14_Witness ==
    /\ graph = "lifecycle" /\ OuterExit
    /\ "effect_fn" \in touched /\ "DISPOSED" \in flags["effect_fn"]
    /\ runs["effect_fn"] = 0 /\ obs["effect_fn"] # <<value["base"]>>

\* ------------------------------------------------------------------- C15
\* The cleanup calls of Effect e recorded in log l, in order.
CleanupCalls(l, e) == SelectSeq(l, LAMBDA ev : ev[1] = "cleanup" /\ ev[2] = e)

\* C15: teardown calls each registered cleanup exactly once, whatever the
\* order of dispose() and reclamation.  The first teardown of an Effect
\* (dispose, or reclamation alone) calls every cleanup on its list once; a
\* teardown after it (a second dispose, the reclamation of a disposed Effect)
\* calls none; the list is empty afterwards and no cleanup of a torn-down
\* Effect is ever called again.
C15_Step ==
    \A e \in Effects :
        /\ lastOp'.op \in {"dispose", "reclaim"} /\ lastOp'.node = e =>
                /\ CleanupCalls(log', e) =
                        IF "DISPOSED" \in flags[e] THEN <<>>
                        ELSE CallsOf(e, cleanups[e])
                /\ cleanups'[e] = <<>>
                /\ "DISPOSED" \in flags'[e]
        /\ "DISPOSED" \in flags[e] =>
                CleanupCalls(log', e) = <<>> /\ cleanups'[e] = <<>>

\* C15 at every step: each registered cleanup is called exactly once by the
\* teardowns of its Effect, in whatever order they are made.
C15_CleanupsOnce == [][C15_Step]_vars

\* Reached: effect_fn, whose every run registers two cleanups, was disposed
\* and then reclaimed, and the reclamation called no cleanup.
C15_Witness ==
    /\ graph = "lifecycle" /\ lastOp.op = "reclaim" /\ lastOp.node = "effect_fn"
    /\ "effect_fn" \in reclaimed /\ log = <<>> /\ exc = None
    /\ Len(obs["effect_fn"]) = 1

\* ------------------------------------------------------------------- C16
\* The cleanup calls and callback runs of Effect e recorded in log l.
CallsAndRuns(l, e) ==
    SelectSeq(l, LAMBDA ev : ev[1] \in {"cleanup", "run"} /\ ev[2] = e)

\* C16: the cleanups registered by one run of an Effect are called exactly
\* once, in order, before the callback of its next run starts, or at its
\* teardown when there is no next run, and the list is emptied by the calls
\* (after a rerun it holds the registrations of the new run only).  A step
\* that neither reruns nor tears down the Effect calls none of them and
\* leaves the list as it is.
C16_Step ==
    \A e \in created :
        LET rerun == runs'[e] > 0
            torn == "DISPOSED" \in flags'[e] /\ "DISPOSED" \notin flags[e]
        IN  /\ rerun =>
                    /\ CallsAndRuns(log', e) =
                            CallsOf(e, cleanups[e]) \o <<RunEvent(e)>>
                    /\ cleanups'[e] = Registered(e, obs'[e][1])
            /\ torn =>
                    /\ CallsAndRuns(log', e) = CallsOf(e, cleanups[e])
                    /\ cleanups'[e] = <<>>
            /\ ~rerun /\ ~torn =>
                    /\ CallsAndRuns(log', e) = <<>>
                    /\ cleanups'[e] = cleanups[e]

\* C16 at every step: the cleanups of run k are called once, before the
\* callback of run k+1 or at teardown, and the list is emptied.
C16_CleanupBeforeRerun == [][C16_Step]_vars

\* Reached: a write of 1 to base reran effect_fn, whose run before had read
\* 0: the two cleanups of that run were called, then the callback, and the
\* list holds the two cleanups of the new run.
C16_Witness ==
    /\ graph = "lifecycle" /\ lastOp.op = "set"
    /\ log = <<CleanupEvent("effect_fn", <<0, 1>>),
               CleanupEvent("effect_fn", <<0, 2>>), RunEvent("effect_fn")>>
    /\ cleanups["effect_fn"] = << <<1, 1>>, <<1, 2>> >>

\* ------------------------------------------------------------------- C17
\* Effect e has been torn down completely: it is flagged DISPOSED, it has no
\* dependencies and observes no Node, and its cleanup list is empty.
TornDown(e) ==
    /\ "DISPOSED" \in flags[e]
    /\ deps[e] = {}
    /\ \A n \in Nodes : e \notin observers[n]
    /\ cleanups[e] = <<>>

\* C17: the cleanups of an Effect are called in registration order, and an
\* error raised by one of them stops neither the cleanups after it nor the
\* teardown: the step that tears an Effect down calls all of its cleanups in
\* order, those that raise included, the error does not reach the caller,
\* and the Effect ends disposed and unsubscribed.
C17_Step ==
    \A e \in created :
        "DISPOSED" \in flags'[e] /\ "DISPOSED" \notin flags[e] =>
            /\ CleanupCalls(log', e) = CallsOf(e, cleanups[e])
            /\ \A i \in 1..Len(cleanups[e]) :
                    CleanupRaises(e, cleanups[e][i]) =>
                        \E j \in 1..Len(log') :
                            log'[j] = ErrorEvent(e, cleanups[e][i])
            /\ exc' = None
            /\ TornDown(e)'

\* C17: every teardown step calls all cleanups in registration order in
\* spite of the errors they raise, and a disposed Effect is, in every state,
\* torn down completely.
C17_CleanupErrors ==
    /\ [](\A e \in Effects : "DISPOSED" \in flags[e] => TornDown(e))
    /\ [][C17_Step]_vars

\* Reached: effect_fn was disposed after a run that read 1; its first
\* cleanup raised, its second cleanup was called after it, and the Effect is
\* torn down.
C17_Witness ==
    /\ graph = "lifecycle" /\ lastOp.op = "dispose" /\ exc = None
    /\ log = <<CleanupEvent("effect_fn", <<1, 1>>),
               ErrorEvent("effect_fn", <<1, 1>>),
               CleanupEvent("effect_fn", <<1, 2>>)>>
    /\ TornDown("effect_fn") /\ observers["base"] = {}

\* ------------------------------------------------------------------- C18
\* Effect e is alive: constructed and not torn down.
Alive(e) == e \in created /\ "DISPOSED" \notin flags[e]

\* The step is a non-equal write to Signal s made outside any batch.
WriteTo(s) ==
    nesting = 0 /\ lastOp'.op = "set" /\ lastOp'.node = s /\ ~lastOp'.eq

\* C18: nested Effects are reclaimed independently.  inner_effect, which
\* outer_effect constructs during a run without keeping a reference, can be
\* reclaimed while outer_effect is alive: the reclamation calls the cleanup
\* of inner_effect once and leaves outer_effect as it is.  From then on no
\* step reruns inner_effect, whatever is written to switch, while
\* outer_effect still runs once for every non-equal write to base.  Each of
\* the two reacts to its own Signal only.
C18_Step ==
    /\ lastOp'.op = "reclaim" /\ lastOp'.node = "inner_effect" =>
            /\ log' = CallsOf("inner_effect", cleanups["inner_effect"])
            /\ Len(log') = 1
            /\ flags'["outer_effect"] = flags["outer_effect"]
            /\ deps'["outer_effect"] = deps["outer_effect"]
            /\ cleanups'["outer_effect"] = cleanups["outer_effect"]
            /\ observers'["base"] = observers["base"]
    /\ "inner_effect" \in reclaimed =>
            runs'["inner_effect"] = 0 /\ CleanupCalls(log', "inner_effect") = <<>>
    /\ Alive("outer_effect") /\ WriteTo("base") =>
            runs'["outer_effect"] = 1 /\ obs'["outer_effect"] = <<value'["base"]>>
    /\ WriteTo("switch") =>
            /\ runs'["outer_effect"] = 0
            /\ runs'["inner_effect"] = IF Alive("inner_effect") THEN 1 ELSE 0

\* C18: in the nested program outer_effect depends on base only and
\* inner_effect, constructed by it, on switch only, in every state, and every
\* step is a C18_Step: the reclamation of the child leaves the parent
\* reacting and the child never reruns.
C18_NestedReclaim ==
    /\ [](graph = "nested" =>
            /\ deps["outer_effect"] \subseteq {"base"}
            /\ deps["inner_effect"] \subseteq {"switch"}
            /\ "inner_effect" \in created => "outer_effect" \in created)
    /\ [][graph = "nested" => C18_Step]_vars

\* Reached: inner_effect was reclaimed while outer_effect is alive; a later
\* write to switch did not rerun it (it still holds the value it read before)
\* and the write to base just made has rerun outer_effect.
C18_Witness ==
    /\ graph = "nested" /\ "inner_effect" \in reclaimed /\ Alive("outer_effect")
    /\ lastOp.op = "set" /\ lastOp.node = "base" /\ ~lastOp.eq
    /\ runs["outer_effect"] = 1 /\ runs["inner_effect"] = 0
    /\ obs["inner_effect"] # <<value["switch"]>>

\* ------------------------------------------------------------------- C19
\* The tasks that execute Effect e.
TasksOf(T, e) == {t \in 1..MaxTasks : T[t].effect = e}

\* C19: an Effect disposed while its callback is suspended is, from the
\* dispose on and also after the callback has resumed and finished,
\* subscribed to no Signal and without dependencies, and its cleanups have
\* been called: the list is empty.
C19_Disposed ==
    \A e \in GraphEffects("async") :
        disposed[e] =>
            /\ deps[e] = {}
            /\ \A s \in Signals : e \notin observers[s]
            /\ cleanups[e] = <<>>

\* C19 (continued): the dispose calls the cleanups the suspended callback
\* had registered, each once; after it no write schedules the Effect (no
\* task is created for it, _scheduled is not set) and no step enters its
\* callback or calls a cleanup of it again.
C19_Step ==
    \A e \in GraphEffects("async") :
        /\ ~disposed[e] /\ disposed'[e] => log' = CallsOf(e, cleanups[e])
        /\ disposed[e] =>
                /\ TasksOf(tasks', e) \subseteq TasksOf(tasks, e)
                /\ scheduled'[e] => scheduled[e]
                /\ CallsAndRuns(log', e) = <<>>
                /\ disposed'[e]

AsyncReads(e) == {Before(e), After(e)}

\* C20: the current-consumer pointer is scoped per task.  While the tasks of
\* the two Effects are in flight, in whatever order they are started, resumed
\* and finished, the pointer in the context of a task whose callback is
\* suspended is the Effect of that task, and the pointer in the context of
\* the client and of every task that is not inside a callback is None: it is
\* restored when the callback is left.  So a Signal is recorded only in the
\* dependency set of the Effect whose callback read it.
C20_Scoped ==
    /\ \A t \in 0..MaxTasks :
            tasks[t].current_effect =
                IF tasks[t].pc = "suspended" THEN tasks[t].effect ELSE None
    /\ \A e \in GraphEffects("async") :
            /\ deps[e] \cup newDeps[e] \subseteq AsyncReads(e)
            /\ \A s \in Signals : e \in observers[s] => s \in AsyncReads(e)

\* C20 (continued): the execution of an Effect that is not disposed ends
\* with the Signals its callback read as its dependency set.
C20_Step ==
    \A e \in GraphEffects("async") :
        lastOp'.op = "resume" /\ lastOp'.node = e /\ ~disposed[e] /\ exc' = None =>
            /\ deps'[e] = AsyncReads(e)
            /\ \A s \in Signals : e \in observers'[s] <=> s \in AsyncReads(e)

\* C20: the current-consumer pointer is scoped per task in every state
\* (C20_Scoped), and every execution that finishes records the reads of its
\* own callback and no others (C20_Step).
C20_TaskScopedPointer == []C20_Scoped /\ [][C20_Step]_vars

\* Reached: the callbacks of effect1 and effect2 were suspended at the same
\* time; effect1 has resumed and finished, with base as its only dependency,
\* while effect2 is still suspended, having read switch.
C20_Witness ==
    /\ graph = "async" /\ lastOp.op = "resume" /\ lastOp.node = "effect1"
    /\ deps["effect1"] = {"base"} /\ observers["base"] = {"effect1"}
    /\ newDeps["effect2"] = {"switch"}
    /\ \E t \in 1..MaxTasks :
            /\ tasks[t].pc = "suspended" /\ tasks[t].effect = "effect2"
            /\ tasks[t].current_effect = "effect2"

\* ------------------------------------------------------------------- C21
\* No execution of Effect e is in flight and none is scheduled.
Quiet(e) == TasksOf(tasks, e) = {} /\ ~scheduled[e]

\* C21: no update is lost for a suspendable Effect.  When a Signal the
\* callback read before it awaited is written (non-equal) while that run is
\* suspended, the Effect is run again after the write and reads the written
\* value: once every execution of a live Effect has ended, no such write is
\* left that no run has started after, and the value the Effect last read is
\* the current one.
C21_NoLostUpdate ==
    \A e \in GraphEffects(graph) :
        Quiet(e) /\ ~disposed[e] /\ Before(e) # None /\ obs[e] # <<>> =>
            ~unseen[e] /\ obs[e] = <<value[Before(e)]>>

\* ------------------------------------------------------------------- C22
\* A non-equal write to base is made by the step.
BaseWritten == lastOp'.op = "set" /\ lastOp'.node = "base" /\ ~lastOp'.eq

\* C22: async_effect, whose only read of base is made after its await,
\* depends on base.  Once a run of it has completed (it has kept a value)
\* and while it is not disposed, base is its dependency and it is a
\* subscriber of base; and whenever all its executions have ended, the value
\* it last read is the current value of base.
C22_Depends ==
    graph = "late" /\ obs["async_effect"] # <<>> /\ ~disposed["async_effect"] =>
        /\ deps["async_effect"] = {"base"}
        /\ "async_effect" \in observers["base"]
        /\ Quiet("async_effect") => obs["async_effect"] = <<value["base"]>>

\* C22 (continued): once a run has completed, a non-equal write to base
\* schedules the Effect, creating a task for it unless one is waiting to
\* start, and the run that resumes reads the value base holds then.
C22_Step ==
    graph = "late" =>
        /\ BaseWritten /\ obs["async_effect"] # <<>> /\ ~disposed["async_effect"] =>
                /\ scheduled'["async_effect"]
                /\ \/ scheduled["async_effect"]
                   \/ \E t \in TasksOf(tasks', "async_effect") :
                        tasks[t].pc = "free" /\ tasks'[t].pc = "created"
        /\ lastOp'.op = "resume" => obs'["async_effect"] = <<value["base"]>>

\* C22: an Effect that reads a Signal only after its first suspension point
\* depends on it once the run has completed (C22_Depends in every state), and
\* a later non-equal write reruns it with the new value (C22_Step).
C22_ReadAfterAwait == []C22_Depends /\ [][C22_Step]_vars

\* Reached: a run of async_effect completed having read 1; base was then set
\* to 2 and the task this write created has started and is suspended at its
\* await.
C22_Witness ==
    /\ graph = "late" /\ lastOp.op = "start" /\ lastOp.node = "async_effect"
    /\ obs["async_effect"] = <<1>> /\ value["base"] = 2
    /\ deps["async_effect"] = {"base"} /\ newDeps["async_effect"] = {}
    /\ \E t \in TasksOf(tasks, "async_effect") : tasks[t].pc = "suspended"

\* ------------------------------------------------------------------- C23
\* The Computeds a and b read each other: switch is True.
Circle == graph = "circular" /\ value["switch"] = 1

\* C23: evaluating a Computed that transitively reads itself while it is
\* evaluating raises CircularDependency at the re-entrant read.  A get() of a
\* or b made while they read each other ends with CircularDependency
\* reaching its caller, after each compute function was entered at most once
\* (the evaluation does not recurse on); and while they do not read each
\* other a get() returns the value and raises nothing.  No evaluation is
\* left open: the reentrancy guards are down and no consumer is current
\* once the operation is over.
C23_CircularDependency ==
    /\ lastOp.op = "get" /\ Circle =>
            /\ exc = "CircularDependency"
            /\ \A c \in Computeds : computes[c] <= 1
            /\ computes[lastOp.node] = 1
    /\ lastOp.op = "get" /\ graph = "circular" /\ ~Circle =>
            exc = None /\ ret = (IF lastOp.node = "a" THEN value["base"] ELSE 0)
    /\ \A c \in Computeds : ~evaluating[c]
    /\ current = None

\* Reached: a and b were evaluated while switch was False; switch was then
\* set True, and the get() of a entered a, then b, and met a again.
C23_Witness ==
    /\ Circle /\ lastOp.op = "get" /\ lastOp.node = "a"
    /\ exc = "CircularDependency"
    /\ computes["a"] = 1 /\ computes["b"] = 1
    /\ value["a"] # NoValue /\ value["b"] # NoValue

\* ------------------------------------------------------------------- C24
\* C24: when a and b, both evaluated before, come to read each other because
\* of a write of True to switch, made outside any batch with no Effect
\* present, the circular-dependency error is raised by that set call.
C24_SetRaises ==
    /\ graph = "circular" /\ lastOp.op = "set" /\ lastOp.node = "switch"
    /\ ~lastOp.eq /\ value["switch"] = 1 /\ nesting = 0
    /\ value["a"] # NoValue /\ value["b"] # NoValue
    => exc = "CircularDependency"

\* ------------------------------------------------------------------- C25
\* C25: safe_compute, constructed with a default, never fails its reader.
\* Every get() of it returns normally: the default when the compute function
\* raises under the current inputs (base is 0), the real quotient when it
\* does not, so also at the first get() after the inputs were fixed; the
\* value returned is the cached one and the Computed is clean.  No run of
\* watcher, which reads it, raises.
C25_Returns ==
    graph = "fallback" =>
        /\ lastOp.op = "get" /\ lastOp.node = "safe_compute" =>
                /\ exc = None
                /\ ret = TrueVal("safe_compute")
                /\ value["safe_compute"] = ret /\ ~dirty["safe_compute"]
        /\ raised = {}
        /\ lastOp.op # "get" => exc = None

\* C25 (continued): the default takes part in propagation as a value.  A
\* non-equal write to base outside any batch reruns watcher exactly when the
\* value safe_compute now yields (the default when compute raises) is not
\* equal to the previously cached one, and the run reads that value.
C25_Step ==
    (graph = "fallback" /\ lastOp'.op = "set" /\ ~lastOp'.eq /\ nesting' = 0
        /\ "watcher" \in created) =>
        /\ runs'["watcher"] = 1 <=>
                ~Equal("safe_compute", value["safe_compute"], TrueVal("safe_compute")')
        /\ obs'["watcher"] = <<TrueVal("safe_compute")'>>
        /\ value'["safe_compute"] = TrueVal("safe_compute")'

\* C25: a Computed with a default returns the default whenever compute
\* raises and the real value once compute succeeds again (C25_Returns in
\* every state), and the default is cached and compared by equality with the
\* previous cached value for propagation (C25_Step at every step).
C25_DefaultOnFailure == []C25_Returns /\ [][C25_Step]_vars

\* Reached: safe_compute held 9 as the quotient 18 / 2 and watcher had read
\* it; base was set to 0, the compute function ran and raised, the default 9
\* was cached, found equal, and watcher was not rerun.
C25_Witness ==
    /\ graph = "fallback" /\ lastOp.op = "set" /\ ~lastOp.eq /\ nesting = 0
    /\ value["base"] = 0 /\ computes["safe_compute"] = 1
    /\ value["safe_compute"] = Default("safe_compute") /\ ~dirty["safe_compute"]
    /\ runs["watcher"] = 0 /\ obs["watcher"] = <<9>>

\* ------------------------------------------------------------------- C26
\* The step is a get() of strict, the Computed without a default.
GetStrict == lastOp'.op = "get" /\ lastOp'.node = "strict"

\* C26: a get() of strict made while its compute function raises (base is
\* 0) fails with ComputeFailed; a get() made while it does not returns the
\* real quotient and raises nothing, whatever failed before.
C26_Returns ==
    lastOp.op = "get" /\ lastOp.node = "strict" =>
        IF value["base"] = 0
        THEN exc = "ComputeFailed" /\ dirty["strict"]
        ELSE exc = None /\ ret = TrueVal("strict") /\ value["strict"] = ret

\* C26 (continued): the failure is not cached.  The failing get() ran the
\* compute function, left the cached value as it was and the Computed dirty;
\* and every get() of a dirty strict runs the compute function again.
C26_Step ==
    GetStrict =>
        /\ value["base"] = 0 =>
                /\ computes'["strict"] = 1
                /\ value'["strict"] = value["strict"]
                /\ dirty'["strict"]
        /\ dirty["strict"] => computes'["strict"] = 1

\* C26: without a default a raising compute function makes get() fail with
\* ComputeFailed (C26_Returns in every state); the failure is not cached, so
\* that a later get() re-evaluates and returns the real value (C26_Step at
\* every step).
C26_ComputeFailed == []C26_Returns /\ [][C26_Step]_vars

\* Reached: strict had been evaluated to 18; base was set to 0 and the get()
\* failed with ComputeFailed, leaving 18 cached and strict dirty.
C26_Witness ==
    /\ graph = "fallback" /\ lastOp.op = "get" /\ lastOp.node = "strict"
    /\ exc = "ComputeFailed" /\ value["base"] = 0
    /\ value["strict"] = 18 /\ dirty["strict"] /\ computes["strict"] = 1

\* ------------------------------------------------------------------- C27
\* C27: a flush only runs when the batch depth has come to 0.  While a
\* scope is open no flush loop has run since the outermost scope was
\* entered, and the only callback an operation runs is the first run of an
\* Effect it constructs, never that of a pending Effect.
C27_NoFlushInBatch ==
    batch_depth > 0 =>
        /\ flushes = 0 /\ flush_iterations = 0
        /\ \A e \in Effects :
                runs[e] > 0 => lastOp.op = "create" /\ lastOp.node = e

\* C27 (continued): flush_now() called inside an open scope returns at once:
\* the pending list, the flags and the depth are as before and no callback
\* has run.  Called at depth 0 it leaves no Effect pending.
C27_Step ==
    lastOp'.op = "flush_now" =>
        IF batch_depth > 0
        THEN /\ UNCHANGED <<batched_effect_head, next_batched_effect, flags,
                            batch_depth, outdated, obs, value, deps, observers>>
             /\ \A e \in Effects : runs'[e] = 0
             /\ exc' = None
        ELSE batched_effect_head' = None /\ flushes' = 1

\* C27: no flush runs and no pending Effect is called while the depth is
\* above 0 (C27_NoFlushInBatch in every state), and a flush requested inside
\* an open scope changes nothing (C27_Step at every step).
C27_FlushOnlyAtZero == []C27_NoFlushInBatch /\ [][C27_Step]_vars

\* Reached: inside a scope, with bystander, producer and consumer pending
\* after writes to base and switch, flush_now() was called and returned
\* with the three still pending and flagged NOTIFIED.
C27_Witness ==
    /\ graph = "chain" /\ lastOp.op = "flush_now" /\ batch_depth = 2
    /\ batched_effect_head # None
    /\ \A e \in GraphEffects("chain") : "NOTIFIED" \in flags[e] /\ runs[e] = 0

Outside(x) ==
    {k \in (GraphNodes(graph) \cap Computeds) \cup GraphEffects(graph) :
        x \notin Upstream([deps |-> deps], k)}

\* A non-equal write to x leaves every consumer outside x's downstream set
\* as it was: a Computed keeps its dirty flag, its cached value and its
\* edges and is not evaluated; an Effect keeps its flags and its next
\* pointer, is not put at the head of the pending list, keeps its edges and
\* the values it last read, and its callback is not run.
C29_Write ==
    (lastOp'.op = "set" /\ ~lastOp'.eq) =>
        /\ \A c \in Outside(lastOp'.node) \cap Computeds :
                /\ dirty'[c] = dirty[c] /\ value'[c] = value[c]
                /\ deps'[c] = deps[c] /\ computes'[c] = 0
                /\ stale'[c] = stale[c]
        /\ \A e \in Outside(lastOp'.node) \cap Effects :
                /\ flags'[e] = flags[e] /\ outdated'[e] = outdated[e]
                /\ next_batched_effect'[e] = next_batched_effect[e]
                /\ (batched_effect_head' = e) => (batched_effect_head = e)
                /\ deps'[e] = deps[e] /\ obs'[e] = obs[e]
                /\ runs'[e] = 0 /\ e \notin touched' \ touched

\* The get() of a Computed that follows a non-equal write to a Signal the
\* Computed does not depend on, the Computed having been evaluated before:
\* the compute function is not invoked and the cached value is returned.
C29_NextGet ==
    (/\ lastOp.op = "set" /\ ~lastOp.eq /\ lastOp'.op = "get"
     /\ lastOp'.node \in Outside(lastOp.node) /\ ~dirty[lastOp'.node]) =>
        /\ computes'[lastOp'.node] = 0
        /\ ret' = value[lastOp'.node] /\ exc' = None

\* C29: a write to Signal x leaves every consumer that does not depend on x
\* untouched: no Computed outside x's downstream set is dirtied, nor
\* recomputed at its next get(), and no Effect outside it is enqueued or
\* run.
C29_FrameCondition == [][C29_Write /\ C29_NextGet]_vars

\* Reached: with both Effects constructed, base was written outside any
\* batch: effect_xy ran and read the new computed_xy, while effect_z did not
\* run and computed_z is still clean with the value it had.
C29_Witness ==
    /\ graph = "separate" /\ lastOp.op = "set" /\ lastOp.node = "base"
    /\ ~lastOp.eq /\ nesting = 0
    /\ created = {"effect_xy", "effect_z"}
    /\ runs["effect_xy"] = 1 /\ obs["effect_xy"] = <<value["base"] + 1>>
    /\ runs["effect_z"] = 0 /\ "NOTIFIED" \notin flags["effect_z"]
    /\ ~dirty["computed_z"] /\ computes["computed_z"] = 0

\* ------------------------------------------------------------------- C30
\* The step is a flush in which the callback of producer, walked as part of
\* the snapshot, wrote a new value to switch while consumer, which reads
\* switch, was not on the pending list.
EnqueuedInFlush ==
    /\ "consumer" \in created /\ "NOTIFIED" \notin flags["consumer"]
    /\ lastOp'.op # "create"
    /\ ~(lastOp'.op = "set" /\ lastOp'.node = "switch")
    /\ runs'["producer"] = 1 /\ value'["switch"] # value["switch"]

\* The position of the run of Effect e in the log (0: it did not run).
RunAt(lg, e) ==
    IF \E i \in 1..Len(lg) : lg[i] = RunEvent(e)
    THEN CHOOSE i \in 1..Len(lg) : lg[i] = RunEvent(e)
    ELSE 0

\* Such a flush is one flush loop of two outer iterations: consumer runs
\* once, after every Effect of the snapshot (bystander included, also when
\* it follows producer in the list), each Effect of the snapshot runs once, and
\* the flush ends with an empty pending list, no Effect flagged and no
\* exception.
C30_Step ==
    EnqueuedInFlush =>
        /\ flushes' = 1 /\ flush_iterations' = 2
        /\ runs'["consumer"] = 1 /\ obs'["consumer"] = <<value'["switch"]>>
        /\ Len(log') = Cardinality({e \in Effects : runs'[e] = 1})
        /\ RunAt(log', "consumer") = Len(log')
        /\ \A e \in Effects : runs'[e] <= 1
        /\ ("bystander" \in created /\ "NOTIFIED" \in flags["bystander"]) =>
                /\ runs'["bystander"] = 1
                /\ RunAt(log', "bystander") < RunAt(log', "consumer")
        /\ batched_effect_head' = None
        /\ \A e \in Effects :
                "NOTIFIED" \notin flags'[e] /\ next_batched_effect'[e] = None
        /\ exc' = None /\ ~running' /\ batch_depth' = 0

Runaway ==
    /\ lastOp'.op \in {"set", "exit", "create"}
    /\ flush_iterations' = MAX_BATCH_ITERATIONS
    /\ batched_effect_head' # None

\* The cycle error of a runaway flush is the exception of the operation that
\* flushed (the set, the exit of the outermost batch scope, or the
\* construction of an Effect); it is not recorded among the exceptions the
\* flush caught from callbacks, and the exit has still left the scope.
\* Conversely the error comes out of such an operation only.
C31_Step ==
    /\ Runaway =>
            /\ exc' = "ReactiveCycle" /\ raised' = {}
            /\ batch_depth' = 0
            /\ lastOp'.op = "exit" => nesting = 1 /\ nesting' = 0
            /\ lastOp'.op = "set" => ~lastOp'.eq
    /\ exc' = "ReactiveCycle" => Runaway

RECURSIVE ListFrom(_, _, _)
ListFrom(h, nx, fuel) ==
    IF h = None \/ fuel = 0 THEN <<>>
    ELSE <<h>> \o ListFrom(nx[h], nx, fuel - 1)

\* The pending list, followed one link further than there are Effects.
Pending ==
    ListFrom(batched_effect_head, next_batched_effect,
             Cardinality(GraphEffects(graph)) + 1)

C33_EnqueueTestsFlag ==
    [][lastOp'.op = "enqueue" =>
        IF "NOTIFIED" \in flags[lastOp'.node]
        THEN /\ batched_effect_head' = batched_effect_head
             /\ next_batched_effect' = next_batched_effect
             /\ flags' = flags
        ELSE /\ "NOTIFIED" \in flags'[lastOp'.node]
             /\ batched_effect_head' = lastOp'.node]_vars

\* enqueue_effect(e) as it is: e becomes the head and is linked in front of
\* the list there was, whatever its flags, and no flag is changed.
C33_Enqueue ==
    lastOp'.op = "enqueue" =>
        /\ batched_effect_head' = lastOp'.node
        /\ next_batched_effect' =
                IF batched_effect_head = None THEN next_batched_effect
                ELSE [next_batched_effect EXCEPT ![lastOp'.node] = batched_effect_head]
        /\ flags' = flags /\ outdated' = outdated
        /\ batch_depth' = batch_depth /\ \A e \in Effects : runs'[e] = 0

\* The Effects a write to base inside a batch scope notifies.
Notified == {e \in GraphEffects(graph) : "base" \in Upstream([deps |-> deps], e)}

\* The notification of an Effect, by a non-equal write inside a batch scope:
\* an Effect that is flagged NOTIFIED keeps its flags and its next pointer
\* and is not made the head; one that is not flagged is flagged and linked
\* in, as head or in front of the old head or of another Effect the write
\* enqueued.
C33_Notify ==
    (lastOp'.op = "set" /\ ~lastOp'.eq /\ nesting > 0) =>
        \A e \in Notified :
            IF "NOTIFIED" \in flags[e]
            THEN /\ flags'[e] = flags[e]
                 /\ next_batched_effect'[e] = next_batched_effect[e]
                 /\ batched_effect_head' = e => batched_effect_head = e
            ELSE /\ flags'[e] = flags[e] \cup {"NOTIFIED"}
                 /\ \/ batched_effect_head' = e
                    \/ \E f \in Notified \ {e} :
                            /\ "NOTIFIED" \notin flags[f]
                            /\ next_batched_effect'[f] = e
                 /\ batched_effect_head # None =>
                        next_batched_effect'[e] \in
                            {batched_effect_head} \cup (Notified \ {e})

\* C33 (amended): enqueue_effect(e) prepends e to the pending list whatever
\* its NOTIFIED flag and changes no flag; the test and the setting of the
\* flag are made by the notification of an Effect, which leaves a flagged
\* Effect as it is and flags and prepends one that is not flagged.
C33_EnqueueOnNotify == [][C33_Enqueue /\ C33_Notify]_vars

\* Reached: enqueue_effect was called on an Effect that was flagged NOTIFIED
\* and was the head of the list: it is now linked to itself.
C33_Witness ==
    /\ graph = "queue" /\ lastOp.op = "enqueue" /\ lastOp.node = "bystander"
    /\ "NOTIFIED" \in flags["bystander"]
    /\ batched_effect_head = "bystander"
    /\ next_batched_effect["bystander"] = "bystander"

\* ------------------------------------------------------------------- C34
\* Effect e is linked in the pending list.
InPending(e) == \E i \in 1..Len(Pending) : Pending[i] = e

C34_Inv ==
    \A e \in GraphEffects(graph) :
        InPending(e) =>
            /\ e \notin reclaimed
            /\ "DISPOSED" \in flags[e] => nesting > 0 /\ "NOTIFIED" \in flags[e]

\* dispose() of an Effect that is pending leaves the list as it is; an
\* Effect that is disposed and not pending is not enqueued; the flush at the
\* exit of the outermost scope, unless an exception leaves it, unlinks a
\* disposed Effect and clears its NOTIFIED flag without running it.
C34_Step ==
    \A e \in GraphEffects(graph) :
        /\ (lastOp'.op = "dispose" /\ lastOp'.node = e /\ InPending(e)) =>
                /\ Pending' = Pending /\ "DISPOSED" \in flags'[e]
                /\ next_batched_effect' = next_batched_effect
        /\ ("DISPOSED" \in flags[e] /\ ~InPending(e)) => ~InPending(e)'
        /\ (/\ "DISPOSED" \in flags[e] /\ InPending(e)
            /\ lastOp'.op = "exit" /\ nesting' = 0 /\ exc' = None) =>
                /\ ~InPending(e)' /\ "NOTIFIED" \notin flags'[e]
                /\ next_batched_effect'[e] = None /\ runs'[e] = 0

ObservedBy(obsv, e) == {n \in Nodes : e \in obsv[n]}

\* No observer set holds an Effect that is disposed or reclaimed, and such an
\* Effect has no dependencies; an Effect that is neither is observed by
\* exactly the Nodes of its dependency set.
C35_Inv ==
    \A e \in GraphEffects(graph) :
        IF "DISPOSED" \in flags[e] \/ e \in reclaimed
        THEN ObservedBy(observers, e) = {} /\ deps[e] = {}
        ELSE ObservedBy(observers, e) = deps[e]

\* The dispose() or the reclamation of Effect e takes e out of the observer
\* set of every Node it depended on, adds no observer anywhere, and empties
\* the dependency set of e.
C35_Step ==
    \A e \in GraphEffects(graph) :
        (lastOp'.op \in {"dispose", "reclaim"} /\ lastOp'.node = e) =>
            /\ ObservedBy(observers', e) = {} /\ deps'[e] = {}
            /\ \A n \in Nodes : observers'[n] \subseteq observers[n] \ {e}
            /\ \A n \in Nodes \ deps[e] :
                    observers'[n] \cap Computeds = observers[n] \cap Computeds

\* C35: no Node's observer set contains an Effect that has been disposed or
\* reclaimed: dispose() and reclamation remove the Effect from the observer
\* set of every Node it depended on and empty its dependency set.
C35_NotObserved == []C35_Inv /\ [][C35_Step]_vars

\* Reached: derived, which read the Computed left, was reclaimed: left has no
\* observer any more, while left itself still observes base.
C35_Witness ==
    /\ graph = "through" /\ lastOp.op = "reclaim" /\ lastOp.node = "derived"
    /\ "derived" \in reclaimed /\ deps["derived"] = {}
    /\ observers["left"] = {} /\ observers["base"] = {"left"}

\* ------------------------------------------------------------------- C36
\* The Nodes the last evaluation of a consumer of the tracking program read:
\* test_effect read base and, having seen base > 0, switch; dyn read switch
\* and the branch that switch selected.
ReadBy(k, seen, sw) ==
    CASE k = "test_effect" ->
            {"base"} \cup (IF seen # <<>> /\ seen[1] > 0 THEN {"switch"} ELSE {})
      [] k = "dyn" -> {"switch", IF sw = 1 THEN "base" ELSE "other"}

\* Between operations: a consumer is observed by exactly the Nodes of its
\* dependency set and no read is being collected; test_effect, once
\* constructed, depends on exactly the Nodes its last run read; dyn, while
\* clean, on exactly those its last evaluation read, and on the reads of one
\* of its evaluations otherwise.
C36_Inv ==
    graph = "tracking" =>
        /\ \A k \in {"dyn", "test_effect"} :
                {n \in Nodes : k \in observers[n]} = deps[k] /\ newDeps[k] = {}
        /\ deps["test_effect"] =
                IF "test_effect" \in created
                THEN ReadBy("test_effect", obs["test_effect"], 0) ELSE {}
        /\ ~dirty["dyn"] => deps["dyn"] = ReadBy("dyn", <<>>, value["switch"])
        /\ deps["dyn"] \in {{}, ReadBy("dyn", <<>>, 0), ReadBy("dyn", <<>>, 1)}

\* At a step: a consumer that was evaluated depends on exactly the Nodes it
\* read, is unsubscribed from the Nodes only in its old set and subscribed
\* to those only in its new set; a consumer that was not evaluated keeps its
\* edges; a read by the client adds no edge.
C36_Step ==
    /\ computes'["dyn"] = 1 =>
            deps'["dyn"] = ReadBy("dyn", <<>>, value'["switch"])
    /\ runs'["test_effect"] = 1 =>
            deps'["test_effect"] = ReadBy("test_effect", obs'["test_effect"], 0)
    /\ \A k \in {"dyn", "test_effect"} :
            /\ \A n \in deps[k] \ deps'[k] : k \notin observers'[n]
            /\ \A n \in deps'[k] \ deps[k] : k \in observers'[n]
            /\ (IF k = "dyn" THEN computes'[k] ELSE runs'[k]) = 0 =>
                    deps'[k] = deps[k]
    /\ lastOp'.op = "get" =>
            /\ \A n \in Nodes :
                    observers'[n] \cap Effects = observers[n] \cap Effects
            /\ observers'[lastOp'.node] = observers[lastOp'.node]
            /\ lastOp'.node \in Signals => observers' = observers /\ deps' = deps
            /\ current' = None

\* C36: after an evaluation of a Computed or a run of an Effect the
\* dependency set of the consumer is exactly the set of Nodes read during
\* it, and the consumer is in the observer set of exactly those Nodes (old
\* only: unsubscribed, new only: subscribed); a read made outside any
\* evaluation adds no edge.
C36_ExactEdges == []C36_Inv /\ [][C36_Step]_vars

\* Reached: test_effect had read base > 0 and switch; base was written to 0
\* outside any batch, the Effect ran again without reading switch, and it
\* is no longer an observer of switch.
C36_Witness ==
    /\ graph = "tracking" /\ lastOp.op = "set" /\ lastOp.node = "base"
    /\ value["base"] = 0 /\ runs["test_effect"] = 1
    /\ obs["test_effect"] = <<0>> /\ deps["test_effect"] = {"base"}
    /\ "test_effect" \notin observers["switch"]

\* ------------------------------------------------------------------- C37
\* C37: between operations, so with no flush in progress, an Effect is
\* flagged NOTIFIED exactly when it is linked in the pending list, and an
\* Effect outside the list has no next pointer; also after a flush that an
\* exception has left.
C37_FlagIffLinked ==
    \A e \in GraphEffects(graph) :
        /\ "NOTIFIED" \in flags[e] <=> InPending(e)
        /\ ~InPending(e) => next_batched_effect[e] = None

\* ------------------------------------------------------------------- C38
\* The step leaves a batch scope, normally or by an exception of the body.
Leaves == lastOp'.op \in {"exit", "raise"}

\* Every exit restores the depth to its value before the entry.  An exit
\* that is not the outermost one runs nothing; the outermost one runs the
\* flush, which either empties the pending list or raises the cycle error
\* with the depth already at 0.  After an exit by an exception of the body
\* the caller has that exception, unless the flush raised; after a normal
\* exit it has none, unless the flush raised.
C38_Step ==
    Leaves =>
        /\ batch_depth' = batch_depth - 1 /\ nesting' = nesting - 1
        /\ batch_depth > 1 =>
                /\ flushes' = flushes /\ \A e \in Effects : runs'[e] = 0
                /\ batched_effect_head' = batched_effect_head
                /\ exc' = IF lastOp'.op = "raise" THEN "BodyError" ELSE None
        /\ batch_depth = 1 =>
                /\ flushes' = 1 /\ batch_depth' = 0
                /\ IF flush_iterations' = MAX_BATCH_ITERATIONS
                        /\ batched_effect_head' # None
                   THEN exc' = "ReactiveCycle"
                   ELSE /\ batched_effect_head' = None
                        /\ \A e \in Effects : "NOTIFIED" \notin flags'[e]
                        /\ \A e \in created : outdated[e] => runs'[e] >= 1
                        /\ exc' = IF lastOp'.op = "raise" THEN "BodyError" ELSE None

C39_OverlappingRuns ==
    [][lastOp'.op = "resume" =>
        /\ exc' = None
        /\ \A e \in GraphEffects(graph) :
                (lastOp'.node = e /\ ~disposed[e] /\ TasksOf(tasks', e) = {}) =>
                    \A s \in AsyncReads(e) \ {None} :
                        s \in deps'[e] /\ e \in observers'[s]]_vars
====
